---- MODULE Spec2Model ----
(***************************************************************************)
(* Model of the Hako keyboard -> GameCube-controller translator            *)
(* (src/src/main.rs): the key map, the SOCD axis state machines, the       *)
(* dual-mode (C-stick / D-pad) axis state machine, the shield state        *)
(* machine, the A-stick and C-stick resolvers, Main::process_b0xx and the  *)
(* expansion of its composite result into pipe commands.                   *)
(***************************************************************************)
EXTENDS Integers, Sequences, FiniteSets, TLC

\* ---------------------------------------------------------------- bounds
\* Largest number of physical keys held down at the same time.
MaxHeld == 4
\* Largest number of key events handed to the translator in one run.
MaxEvents == 8

\* ------------------------------------------------------- basic constants
POSITIVE == TRUE
NEGATIVE == FALSE
PRESSED == TRUE
RELEASED == FALSE

\* Option<T>: None is the empty sequence, Some(x) the one-element sequence.
None == <<>>
Some(x) == <<x>>

\* mod consts: Pnnnn is the Analog value nnnn / 10000 * 80.
P0000 == 0
P2875 == 23
P3125 == 25
P3375 == 27
P3625 == 29
P3750 == 30
P4750 == 38
P4875 == 39
P5000 == 40
P5125 == 41
P5250 == 42
P5375 == 43
P6125 == 49
P6375 == 51
P6625 == 53
P6875 == 55
P7000 == 56
P7125 == 57
P7375 == 59
P7625 == 61
P7875 == 63
P8125 == 65
P8500 == 68
P8750 == 70
AnalogMIN == -80
AnalogMAX == 80
TriggerZ == 0
TriggerMAX == 140
LS == 49
MS == 94

\* B0xxState flag masks.
MODS == {"MOD_X", "MOD_Y"}
LR == {"L", "R"}

\* NegExt::neg_not
neg_not(n, b) == IF b THEN n ELSE -n

\* ---------------------------------------------------------------- keymap
MappedKeys ==
  {"KEY_SEMICOLON", "KEY_O", "KEY_E", "KEY_U", "KEY_LEFTSHIFT", "KEY_LEFTCTRL",
   "KEY_Y", "KEY_F", "KEY_G", "KEY_C", "KEY_R", "KEY_S", "KEY_H", "KEY_T",
   "KEY_N", "KEY_Z", "KEY_ESC", "KEY_BACKSPACE", "KEY_DOWN", "KEY_ENTER",
   "KEY_SPACE"}

\* A key the map does not know.
UnmappedKey == "KEY_Q"

\* Remapper::keyboard_to_b0xx
keyboard_to_b0xx(c) ==
  CASE c = "KEY_SEMICOLON" -> Some("L")
    [] c = "KEY_O" -> Some("Left")
    [] c = "KEY_E" -> Some("Down")
    [] c = "KEY_U" -> Some("Right")
    [] c = "KEY_LEFTSHIFT" -> Some("MX")
    [] c = "KEY_LEFTCTRL" -> Some("MY")
    [] c \in {"KEY_Y", "KEY_F"} -> Some("Start")
    [] c = "KEY_G" -> Some("R")
    [] c = "KEY_C" -> Some("Y")
    [] c = "KEY_R" -> Some("LS")
    [] c = "KEY_S" -> Some("MS")
    [] c = "KEY_H" -> Some("B")
    [] c = "KEY_T" -> Some("X")
    [] c = "KEY_N" -> Some("Z")
    [] c = "KEY_Z" -> Some("Up")
    [] c = "KEY_ESC" -> Some("CD")
    [] c = "KEY_BACKSPACE" -> Some("CL")
    [] c = "KEY_DOWN" -> Some("CU")
    [] c = "KEY_ENTER" -> Some("CR")
    [] c = "KEY_SPACE" -> Some("A")
    [] OTHER -> None

\* Remapper::evdev_to_b0xx: value 2 (auto-repeat) and unmapped keys give None.
evdev_to_b0xx(code, value) ==
  IF value = 2 THEN None
  ELSE IF keyboard_to_b0xx(code) = None THEN None
  ELSE Some([btn |-> keyboard_to_b0xx(code)[1], pressed |-> (value = 1)])

\* impl From<B0xxRaw> for B0xx
B0xxFrom(t) ==
  CASE t \in {"A", "X", "Y", "Z", "Start"} -> [cls |-> "Pure", kind |-> "Button", btn |-> t]
    [] t \in {"B", "L", "R"} -> [cls |-> "Impure", kind |-> "Button", btn |-> t]
    [] t = "Left" -> [cls |-> "Impure", kind |-> "Stick", stick |-> "A", axis |-> "X", dir |-> NEGATIVE]
    [] t = "Right" -> [cls |-> "Impure", kind |-> "Stick", stick |-> "A", axis |-> "X", dir |-> POSITIVE]
    [] t = "Down" -> [cls |-> "Impure", kind |-> "Stick", stick |-> "A", axis |-> "Y", dir |-> NEGATIVE]
    [] t = "Up" -> [cls |-> "Impure", kind |-> "Stick", stick |-> "A", axis |-> "Y", dir |-> POSITIVE]
    [] t = "MX" -> [cls |-> "Impure", kind |-> "ModX"]
    [] t = "MY" -> [cls |-> "Impure", kind |-> "ModY"]
    [] t = "LS" -> [cls |-> "Pure", kind |-> "Shield", shield |-> "Light"]
    [] t = "MS" -> [cls |-> "Pure", kind |-> "Shield", shield |-> "Medium"]
    [] t = "CU" -> [cls |-> "Impure", kind |-> "Stick", stick |-> "C", axis |-> "Y", dir |-> POSITIVE]
    [] t = "CD" -> [cls |-> "Impure", kind |-> "Stick", stick |-> "C", axis |-> "Y", dir |-> NEGATIVE]
    [] t = "CR" -> [cls |-> "Impure", kind |-> "Stick", stick |-> "C", axis |-> "X", dir |-> POSITIVE]
    [] t = "CL" -> [cls |-> "Impure", kind |-> "Stick", stick |-> "C", axis |-> "X", dir |-> NEGATIVE]

\* ------------------------------------------------------------- AxisState
AxisNull(h) == [tag |-> "Null", held |-> h]
AxisActive(d, o) == [tag |-> "Active", dir |-> d, opp |-> o]

\* AxisState::active
AxisState_active(s) ==
  IF s.tag = "Null" THEN None ELSE Some(s.dir)

\* AxisState::active_unique
AxisState_active_unique(s) ==
  IF s.tag = "Null" THEN None
  ELSE IF ~s.opp THEN Some(s.dir) ELSE None

ABSActive == [tag |-> "Active"]
ABSInactive(p) == [tag |-> "Inactive", pressed |-> p]

\* AxisState::state_in_dir
AxisState_state_in_dir(s, dir) ==
  IF s.tag = "Null" THEN ABSInactive(s.held = Some(dir))
  ELSE IF s.dir = dir THEN ABSActive
  ELSE ABSInactive(s.opp)

\* A slip in the SOCD resolver: the first press keeps winning when the
\* opposing direction is pressed.
AxisState_transition_FirstWins(s, dir, pressed) ==
  CASE s.tag = "Null" /\ s.held = None /\ pressed -> AxisActive(dir, RELEASED)
    [] s.tag = "Null" /\ s.held # None /\ ~pressed /\ s.held = Some(dir) -> AxisNull(None)
    [] s.tag = "Null" /\ s.held # None /\ pressed /\ s.held # Some(dir) -> AxisActive(dir, PRESSED)
    [] s.tag = "Active" /\ ~s.opp /\ ~pressed /\ dir = s.dir -> AxisNull(None)
    [] s.tag = "Active" /\ ~s.opp /\ pressed /\ dir # s.dir -> AxisActive(s.dir, PRESSED)
    [] s.tag = "Active" /\ s.opp /\ ~pressed ->
         IF dir = s.dir THEN AxisNull(Some(~s.dir)) ELSE AxisActive(s.dir, RELEASED)
    [] OTHER -> s

\* A slip in the SOCD resolver: the release of the suppressed direction is
\* not noticed, the state keeps saying the opposing key is down.
AxisState_transition_StaleOpp(s, dir, pressed) ==
  CASE s.tag = "Null" /\ s.held = None /\ pressed -> AxisActive(dir, RELEASED)
    [] s.tag = "Null" /\ s.held # None /\ ~pressed /\ s.held = Some(dir) -> AxisNull(None)
    [] s.tag = "Null" /\ s.held # None /\ pressed /\ s.held # Some(dir) -> AxisActive(dir, PRESSED)
    [] s.tag = "Active" /\ ~s.opp /\ ~pressed /\ dir = s.dir -> AxisNull(None)
    [] s.tag = "Active" /\ ~s.opp /\ pressed /\ dir # s.dir -> AxisActive(dir, PRESSED)
    [] s.tag = "Active" /\ s.opp /\ ~pressed ->
         IF dir = s.dir THEN AxisNull(Some(~s.dir)) ELSE AxisActive(s.dir, PRESSED)
    [] OTHER -> s

\* A slip in the SOCD resolver: when the winner is released the suppressed
\* direction becomes the active one again.
AxisState_transition_Revive(s, dir, pressed) ==
  CASE s.tag = "Null" /\ s.held = None /\ pressed -> AxisActive(dir, RELEASED)
    [] s.tag = "Null" /\ s.held # None /\ ~pressed /\ s.held = Some(dir) -> AxisNull(None)
    [] s.tag = "Null" /\ s.held # None /\ pressed /\ s.held # Some(dir) -> AxisActive(dir, PRESSED)
    [] s.tag = "Active" /\ ~s.opp /\ ~pressed /\ dir = s.dir -> AxisNull(None)
    [] s.tag = "Active" /\ ~s.opp /\ pressed /\ dir # s.dir -> AxisActive(dir, PRESSED)
    [] s.tag = "Active" /\ s.opp /\ ~pressed ->
         IF dir = s.dir THEN AxisActive(~s.dir, RELEASED) ELSE AxisActive(s.dir, RELEASED)
    [] OTHER -> s

\* A slip in the SOCD resolver: when the winner is released the held
\* suppressed direction is forgotten.
AxisState_transition_ForgetHeld(s, dir, pressed) ==
  CASE s.tag = "Null" /\ s.held = None /\ pressed -> AxisActive(dir, RELEASED)
    [] s.tag = "Null" /\ s.held # None /\ ~pressed /\ s.held = Some(dir) -> AxisNull(None)
    [] s.tag = "Null" /\ s.held # None /\ pressed /\ s.held # Some(dir) -> AxisActive(dir, PRESSED)
    [] s.tag = "Active" /\ ~s.opp /\ ~pressed /\ dir = s.dir -> AxisNull(None)
    [] s.tag = "Active" /\ ~s.opp /\ pressed /\ dir # s.dir -> AxisActive(dir, PRESSED)
    [] s.tag = "Active" /\ s.opp /\ ~pressed ->
         IF dir = s.dir THEN AxisNull(None) ELSE AxisActive(s.dir, RELEASED)
    [] OTHER -> s

\* AxisState::transition
AxisState_transition(s, dir, pressed) ==
  CASE s.tag = "Null" /\ s.held = None /\ pressed -> AxisActive(dir, RELEASED)
    [] s.tag = "Null" /\ s.held # None /\ ~pressed /\ s.held = Some(dir) -> AxisNull(None)
    [] s.tag = "Null" /\ s.held # None /\ pressed /\ s.held # Some(dir) -> AxisActive(dir, PRESSED)
    [] s.tag = "Active" /\ ~s.opp /\ ~pressed /\ dir = s.dir -> AxisNull(None)
    [] s.tag = "Active" /\ ~s.opp /\ pressed /\ dir # s.dir -> AxisActive(dir, PRESSED)
    [] s.tag = "Active" /\ s.opp /\ ~pressed ->
         IF dir = s.dir THEN AxisNull(Some(~s.dir)) ELSE AxisActive(s.dir, RELEASED)
    [] OTHER -> s

\* AxisButtonState::from_pressed
from_pressed(pressed) == IF pressed THEN ABSActive ELSE ABSInactive(RELEASED)

\* ----------------------------------------------------- DualModeAxisState
DMNeither(a) == [tag |-> "Neither", axis |-> a]
DMSingle(d, st) == [tag |-> "Single", dir |-> d, st |-> st]
DMBoth == [tag |-> "Both"]

\* DualModeAxisState::active
DualModeAxisState_active(s) ==
  CASE s.tag = "Both" -> None
    [] s.tag = "Single" -> IF s.st = ABSActive THEN Some(s.dir) ELSE None
    [] s.tag = "Neither" -> AxisState_active(s.axis)

\* DualModeAxisState::active_unique
DualModeAxisState_active_unique(s) ==
  CASE s.tag = "Both" -> None
    [] s.tag = "Single" -> IF s.st = ABSActive THEN Some(s.dir) ELSE None
    [] s.tag = "Neither" -> AxisState_active_unique(s.axis)

DMResult(s, rel, p) == [state |-> s, alt_released |-> rel, panic |-> p]

\* The Both arm of DualModeAxisState::transition.
DMTransitionBoth(s, dir, pressed, alt_on_pressed) ==
  IF pressed /\ ~alt_on_pressed THEN DMResult(s, FALSE, TRUE)
  ELSE IF ~pressed THEN DMResult(DMSingle(~dir, ABSInactive(RELEASED)), TRUE, FALSE)
  ELSE DMResult(s, FALSE, FALSE)

\* The Single arm of DualModeAxisState::transition.
DMTransitionSingle(s, dir, pressed, alt_on_pressed) ==
  IF dir = s.dir
  THEN IF pressed /\ alt_on_pressed THEN DMResult(DMBoth, FALSE, FALSE)
       ELSE DMResult(DMSingle(dir, from_pressed(pressed)), FALSE, FALSE)
  ELSE IF pressed
       THEN IF ~alt_on_pressed THEN DMResult(s, FALSE, TRUE)
            ELSE DMResult(s, FALSE, FALSE)
       ELSE IF s.st = ABSActive
            THEN DMResult(DMNeither(AxisActive(s.dir, RELEASED)), TRUE, FALSE)
            ELSE DMResult(DMNeither(AxisNull(IF s.st.pressed THEN Some(s.dir) ELSE None)),
                          TRUE, FALSE)

\* A slip in the Neither arm: the alternate mode is ignored and every press
\* drives the axis state.
DMTransitionNeither_NoLatch(s, dir, pressed, alt_on_pressed) ==
  DMResult(DMNeither(AxisState_transition(s.axis, dir, pressed)), FALSE, FALSE)

\* The Neither arm of DualModeAxisState::transition.
DMTransitionNeither(s, dir, pressed, alt_on_pressed) ==
  IF pressed /\ alt_on_pressed
  THEN DMResult(DMSingle(~dir, AxisState_state_in_dir(s.axis, dir)), FALSE, FALSE)
  ELSE DMResult(DMNeither(AxisState_transition(s.axis, dir, pressed)), FALSE, FALSE)

\* DualModeAxisState::transition.  The result carries the new state, the
\* returned alt_released flag, and whether the call panicked (the state is
\* then left as it was).
DualModeAxisState_transition(s, dir, pressed, alt_on_pressed) ==
  CASE s.tag = "Both" -> DMTransitionBoth(s, dir, pressed, alt_on_pressed)
    [] s.tag = "Single" -> DMTransitionSingle(s, dir, pressed, alt_on_pressed)
    [] s.tag = "Neither" -> DMTransitionNeither(s, dir, pressed, alt_on_pressed)

\* ----------------------------------------------------------- ShieldState
ShNull == [tag |-> "Null"]
ShM(b) == [tag |-> "M", pressed |-> b]
ShL == [tag |-> "L"]
ShML == [tag |-> "ML"]
ShLM == [tag |-> "LM"]

\* A slip in the shield table: releasing Light under Medium (LM) releases the
\* trigger instead of leaving the medium value standing.
ShieldState_transition_LMZero(s, shield, pressed) ==
  CASE s = ShNull /\ shield = "Light" /\ pressed -> [state |-> ShL, rtn |-> Some(LS)]
    [] s = ShNull /\ shield = "Medium" /\ pressed -> [state |-> ShM(PRESSED), rtn |-> Some(MS)]
    [] s.tag = "M" /\ shield = "Light" /\ pressed -> [state |-> ShML, rtn |-> Some(LS)]
    [] s = ShL /\ shield = "Medium" /\ pressed -> [state |-> ShLM, rtn |-> Some(MS)]
    [] s = ShML /\ shield = "Light" /\ ~pressed -> [state |-> ShM(RELEASED), rtn |-> Some(TriggerZ)]
    [] s = ShLM /\ shield = "Light" /\ ~pressed -> [state |-> ShM(PRESSED), rtn |-> Some(TriggerZ)]
    [] s = ShML /\ shield = "Medium" /\ ~pressed -> [state |-> ShL, rtn |-> None]
    [] s = ShLM /\ shield = "Medium" /\ ~pressed -> [state |-> ShL, rtn |-> Some(LS)]
    [] s = ShM(PRESSED) /\ shield = "Medium" /\ ~pressed -> [state |-> ShNull, rtn |-> Some(TriggerZ)]
    [] s = ShL /\ shield = "Light" /\ ~pressed -> [state |-> ShNull, rtn |-> Some(TriggerZ)]
    [] s = ShM(RELEASED) /\ shield = "Medium" /\ ~pressed -> [state |-> ShNull, rtn |-> None]
    [] OTHER -> [state |-> s, rtn |-> None]

\* A slip in the shield table: releasing Light over Medium (ML) zeroes the
\* trigger but remembers the medium value as standing.
ShieldState_transition_MLKeeps(s, shield, pressed) ==
  CASE s = ShNull /\ shield = "Light" /\ pressed -> [state |-> ShL, rtn |-> Some(LS)]
    [] s = ShNull /\ shield = "Medium" /\ pressed -> [state |-> ShM(PRESSED), rtn |-> Some(MS)]
    [] s.tag = "M" /\ shield = "Light" /\ pressed -> [state |-> ShML, rtn |-> Some(LS)]
    [] s = ShL /\ shield = "Medium" /\ pressed -> [state |-> ShLM, rtn |-> Some(MS)]
    [] s = ShML /\ shield = "Light" /\ ~pressed -> [state |-> ShM(PRESSED), rtn |-> Some(TriggerZ)]
    [] s = ShLM /\ shield = "Light" /\ ~pressed -> [state |-> ShM(PRESSED), rtn |-> None]
    [] s = ShML /\ shield = "Medium" /\ ~pressed -> [state |-> ShL, rtn |-> None]
    [] s = ShLM /\ shield = "Medium" /\ ~pressed -> [state |-> ShL, rtn |-> Some(LS)]
    [] s = ShM(PRESSED) /\ shield = "Medium" /\ ~pressed -> [state |-> ShNull, rtn |-> Some(TriggerZ)]
    [] s = ShL /\ shield = "Light" /\ ~pressed -> [state |-> ShNull, rtn |-> Some(TriggerZ)]
    [] s = ShM(RELEASED) /\ shield = "Medium" /\ ~pressed -> [state |-> ShNull, rtn |-> None]
    [] OTHER -> [state |-> s, rtn |-> None]

\* ShieldState::transition: the new state and the Option<Trigger> returned.
ShieldState_transition(s, shield, pressed) ==
  CASE s = ShNull /\ shield = "Light" /\ pressed -> [state |-> ShL, rtn |-> Some(LS)]
    [] s = ShNull /\ shield = "Medium" /\ pressed -> [state |-> ShM(PRESSED), rtn |-> Some(MS)]
    [] s.tag = "M" /\ shield = "Light" /\ pressed -> [state |-> ShML, rtn |-> Some(LS)]
    [] s = ShL /\ shield = "Medium" /\ pressed -> [state |-> ShLM, rtn |-> Some(MS)]
    [] s = ShML /\ shield = "Light" /\ ~pressed -> [state |-> ShM(RELEASED), rtn |-> Some(TriggerZ)]
    [] s = ShLM /\ shield = "Light" /\ ~pressed -> [state |-> ShM(PRESSED), rtn |-> None]
    [] s = ShML /\ shield = "Medium" /\ ~pressed -> [state |-> ShL, rtn |-> None]
    [] s = ShLM /\ shield = "Medium" /\ ~pressed -> [state |-> ShL, rtn |-> Some(LS)]
    [] s = ShM(PRESSED) /\ shield = "Medium" /\ ~pressed -> [state |-> ShNull, rtn |-> Some(TriggerZ)]
    [] s = ShL /\ shield = "Light" /\ ~pressed -> [state |-> ShNull, rtn |-> Some(TriggerZ)]
    [] s = ShM(RELEASED) /\ shield = "Medium" /\ ~pressed -> [state |-> ShNull, rtn |-> None]
    [] OTHER -> [state |-> s, rtn |-> None]

\* ------------------------------------------------- StickState, CStickState
\* A slip in update: the coordinate is reported even when it did not change.
StickState_update_Always(stick, input) ==
  [stick |-> [stick EXCEPT !.gc_input = input], rtn |-> Some(input)]

\* StickState::update / CStickState::update: the stored coordinate after
\* the call and the Option<GCStickInput> returned.
StickState_update(stick, input) ==
  IF stick.gc_input # input
  THEN [stick |-> [stick EXCEPT !.gc_input = input], rtn |-> Some(input)]
  ELSE [stick |-> stick, rtn |-> None]

\* The match of CStickState::unique_cardinal on the two active_unique readings.
UniqueCardinalOf(ux, uy) ==
  CASE ux # None /\ uy = None -> Some(<<"X", ux[1]>>)
    [] ux = None /\ uy # None -> Some(<<"Y", uy[1]>>)
    [] OTHER -> None

\* CStickState::unique_cardinal
unique_cardinal(c) ==
  UniqueCardinalOf(DualModeAxisState_active_unique(c.x),
                   DualModeAxisState_active_unique(c.y))

\* CStickState::transition, given the result r of the axis's transition.
CStickWith(c, axis, r) ==
  [c_stick |-> IF axis = "X" THEN [c EXCEPT !.x = r.state] ELSE [c EXCEPT !.y = r.state],
   rtn |-> r.alt_released, panic |-> r.panic]

\* CStickState::transition
CStickState_transition(c, axis, dir, pressed, dpad_enabled) ==
  CStickWith(c, axis,
             DualModeAxisState_transition(IF axis = "X" THEN c.x ELSE c.y,
                                          dir, pressed, dpad_enabled))

\* ------------------------------------------------------------------ Main
\* A slip in the C-stick resolver: the ModX tilt of a lone C.X direction is
\* left out.
CStickCoord_NoTilt(m, ax, ay) ==
  CASE ax = None /\ ay = None -> <<P0000, P0000>>
    [] ax # None /\ ay = None -> <<neg_not(AnalogMAX, ax[1]), P0000>>
    [] ax = None /\ ay # None -> <<P0000, neg_not(AnalogMAX, ay[1])>>
    [] ax # None /\ ay # None -> <<neg_not(P5250, ax[1]), neg_not(P8500, ay[1])>>

\* The match of Main::update_c_stick on the two C axes' active directions.
CStickCoord(m, ax, ay) ==
  CASE ax = None /\ ay = None -> <<P0000, P0000>>
    [] ax # None /\ ay = None ->
         IF m.state \cap MODS = {"MOD_X"}
         THEN IF m.a_stick.x.tag = "Null" /\ m.a_stick.y.tag = "Active"
              THEN <<neg_not(P8125, ax[1]), neg_not(P2875, m.a_stick.y.dir)>>
              ELSE <<neg_not(AnalogMAX, ax[1]), P0000>>
         ELSE <<neg_not(AnalogMAX, ax[1]), P0000>>
    [] ax = None /\ ay # None -> <<P0000, neg_not(AnalogMAX, ay[1])>>
    [] ax # None /\ ay # None -> <<neg_not(P5250, ax[1]), neg_not(P8500, ay[1])>>

\* The coordinate Main::update_c_stick computes before storing it.
CStickInput(m) ==
  CStickCoord(m, DualModeAxisState_active(m.c_stick.x),
              DualModeAxisState_active(m.c_stick.y))

\* Main::update_c_stick, given the result r of CStickState::update.
CStickStored(m, r) == [m |-> [m EXCEPT !.c_stick = r.stick], rtn |-> r.rtn]

\* Main::update_c_stick
update_c_stick(m) == CStickStored(m, StickState_update(m.c_stick, CStickInput(m)))

\* A slip in the cardinal arm: B held under ModY does not raise the x
\* magnitude.
ACardinalX_NoSideB(m, opposing_held) ==
  LET mods == m.state \cap MODS
  IN  CASE mods = {"MOD_X"} /\ ~opposing_held -> P6625
        [] mods = {"MOD_Y"} /\ ~opposing_held -> P3375
        [] OTHER -> AnalogMAX

\* A slip in the cardinal arm: the opposing key is not looked at, a modifier
\* shortens the x magnitude even with both A.X keys down.
ACardinalX_NoLedgedash(m, opposing_held) ==
  LET mods == m.state \cap MODS
      b == "B" \in m.state
  IN  CASE mods = {"MOD_X"} \/ (mods = {"MOD_Y"} /\ b) -> P6625
        [] mods = {"MOD_Y"} /\ ~b -> P3375
        [] OTHER -> AnalogMAX

\* The x magnitude of the cardinal arm of Main::update_a_stick.
ACardinalX(m, opposing_held) ==
  LET mods == m.state \cap MODS
      b == "B" \in m.state
  IN  CASE (mods = {"MOD_X"} /\ ~opposing_held) \/ (mods = {"MOD_Y"} /\ b /\ ~opposing_held) -> P6625
        [] mods = {"MOD_Y"} /\ ~b /\ ~opposing_held -> P3375
        [] OTHER -> AnalogMAX

\* A slip in the cardinal arm: the unmodified y magnitude is the pipe's full
\* scale, 127, instead of Analog::MAX.
ACardinalY_FullScale(m) ==
  IF m.state \cap MODS = {"MOD_X"} THEN P5375
  ELSE IF m.state \cap MODS = {"MOD_Y"} THEN P7375
  ELSE 127

\* The y magnitude of the cardinal arm of Main::update_a_stick.
ACardinalY(m) ==
  IF m.state \cap MODS = {"MOD_X"} THEN P5375
  ELSE IF m.state \cap MODS = {"MOD_Y"} THEN P7375
  ELSE AnalogMAX

\* A slip in the diagonal table: the ModX entries of C-down and C-up are
\* exchanged.
ADiagonalOf_UpDown(mods, lr, card, y_dir, crouch_walk_option_select) ==
      CASE mods = {"MOD_X"} /\ lr -> <<P6375, P3750>>
        [] mods = {"MOD_X"} /\ ~lr /\ card = Some(<<"Y", NEGATIVE>>) -> <<P7000, P5125>>
        [] mods = {"MOD_X"} /\ ~lr /\ card = Some(<<"X", NEGATIVE>>) -> <<P7875, P4875>>
        [] mods = {"MOD_X"} /\ ~lr /\ card = Some(<<"Y", POSITIVE>>) -> <<P7000, P3625>>
        [] mods = {"MOD_X"} /\ ~lr /\ card = Some(<<"X", POSITIVE>>) -> <<P6125, P5250>>
        [] mods = {"MOD_X"} /\ ~lr /\ card = None -> <<P7375, P3125>>
        [] mods = {"MOD_Y"} /\ lr -> IF y_dir THEN <<P4750, P8750>> ELSE <<P5000, P8500>>
        [] mods = {"MOD_Y"} /\ ~lr /\ card = Some(<<"X", POSITIVE>>) -> <<P6375, P7625>>
        [] mods = {"MOD_Y"} /\ ~lr /\ card = Some(<<"Y", POSITIVE>>) -> <<P5125, P7000>>
        [] mods = {"MOD_Y"} /\ ~lr /\ card = Some(<<"X", NEGATIVE>>) -> <<P4875, P7875>>
        [] mods = {"MOD_Y"} /\ ~lr /\ card = Some(<<"Y", NEGATIVE>>) -> <<P3625, P7000>>
        [] mods = {"MOD_Y"} /\ ~lr /\ card = None -> <<P3125, P7375>>
        [] OTHER -> IF ~y_dir /\ crouch_walk_option_select
                    THEN <<P7125, P6875>> ELSE <<P7000, P7000>>

\* A slip in the diagonal table: under ModY with L or R the magnitudes do
\* not depend on the A.Y direction.
ADiagonalOf_ModYShield(mods, lr, card, y_dir, crouch_walk_option_select) ==
      CASE mods = {"MOD_X"} /\ lr -> <<P6375, P3750>>
        [] mods = {"MOD_X"} /\ ~lr /\ card = Some(<<"Y", NEGATIVE>>) -> <<P7000, P3625>>
        [] mods = {"MOD_X"} /\ ~lr /\ card = Some(<<"X", NEGATIVE>>) -> <<P7875, P4875>>
        [] mods = {"MOD_X"} /\ ~lr /\ card = Some(<<"Y", POSITIVE>>) -> <<P7000, P5125>>
        [] mods = {"MOD_X"} /\ ~lr /\ card = Some(<<"X", POSITIVE>>) -> <<P6125, P5250>>
        [] mods = {"MOD_X"} /\ ~lr /\ card = None -> <<P7375, P3125>>
        [] mods = {"MOD_Y"} /\ lr -> <<P4750, P8750>>
        [] mods = {"MOD_Y"} /\ ~lr /\ card = Some(<<"X", POSITIVE>>) -> <<P6375, P7625>>
        [] mods = {"MOD_Y"} /\ ~lr /\ card = Some(<<"Y", POSITIVE>>) -> <<P5125, P7000>>
        [] mods = {"MOD_Y"} /\ ~lr /\ card = Some(<<"X", NEGATIVE>>) -> <<P4875, P7875>>
        [] mods = {"MOD_Y"} /\ ~lr /\ card = Some(<<"Y", NEGATIVE>>) -> <<P3625, P7000>>
        [] mods = {"MOD_Y"} /\ ~lr /\ card = None -> <<P3125, P7375>>
        [] OTHER -> IF ~y_dir /\ crouch_walk_option_select
                    THEN <<P7125, P6875>> ELSE <<P7000, P7000>>

\* The match of the diagonal arm of Main::update_a_stick on the modifier
\* flags, whether L or R is held, and the C-stick's unique cardinal.
ADiagonalOf(mods, lr, card, y_dir, crouch_walk_option_select) ==
      CASE mods = {"MOD_X"} /\ lr -> <<P6375, P3750>>
        [] mods = {"MOD_X"} /\ ~lr /\ card = Some(<<"Y", NEGATIVE>>) -> <<P7000, P3625>>
        [] mods = {"MOD_X"} /\ ~lr /\ card = Some(<<"X", NEGATIVE>>) -> <<P7875, P4875>>
        [] mods = {"MOD_X"} /\ ~lr /\ card = Some(<<"Y", POSITIVE>>) -> <<P7000, P5125>>
        [] mods = {"MOD_X"} /\ ~lr /\ card = Some(<<"X", POSITIVE>>) -> <<P6125, P5250>>
        [] mods = {"MOD_X"} /\ ~lr /\ card = None -> <<P7375, P3125>>
        [] mods = {"MOD_Y"} /\ lr -> IF y_dir THEN <<P4750, P8750>> ELSE <<P5000, P8500>>
        [] mods = {"MOD_Y"} /\ ~lr /\ card = Some(<<"X", POSITIVE>>) -> <<P6375, P7625>>
        [] mods = {"MOD_Y"} /\ ~lr /\ card = Some(<<"Y", POSITIVE>>) -> <<P5125, P7000>>
        [] mods = {"MOD_Y"} /\ ~lr /\ card = Some(<<"X", NEGATIVE>>) -> <<P4875, P7875>>
        [] mods = {"MOD_Y"} /\ ~lr /\ card = Some(<<"Y", NEGATIVE>>) -> <<P3625, P7000>>
        [] mods = {"MOD_Y"} /\ ~lr /\ card = None -> <<P3125, P7375>>
        [] OTHER -> IF ~y_dir /\ crouch_walk_option_select
                    THEN <<P7125, P6875>> ELSE <<P7000, P7000>>

\* The magnitudes of the diagonal arm of Main::update_a_stick.
ADiagonal(m, y_dir, crouch_walk_option_select) ==
  ADiagonalOf(m.state \cap MODS, m.state \cap LR # {}, unique_cardinal(m.c_stick),
              y_dir, crouch_walk_option_select)

\* (x.neg_not(x_dir), y.neg_not(y_dir)) for the magnitudes d
Signed(d, x_dir, y_dir) == <<neg_not(d[1], x_dir), neg_not(d[2], y_dir)>>

\* The coordinate Main::update_a_stick computes before storing it.
AStickInput(m, crouch_walk_option_select) ==
  LET ax == m.a_stick.x
      ay == m.a_stick.y
  IN  CASE ax.tag = "Null" /\ ay.tag = "Null" -> <<P0000, P0000>>
        [] ax.tag = "Active" /\ ay.tag = "Null" ->
             <<neg_not(ACardinalX(m, ax.opp), ax.dir), P0000>>
        [] ax.tag = "Null" /\ ay.tag = "Active" ->
             <<P0000, neg_not(ACardinalY(m), ay.dir)>>
        [] ax.tag = "Active" /\ ay.tag = "Active" ->
             Signed(ADiagonal(m, ay.dir, crouch_walk_option_select), ax.dir, ay.dir)

\* Main::update_a_stick, given the result r of StickState::update.
AStickStored(m, r) == [m |-> [m EXCEPT !.a_stick = r.stick], rtn |-> r.rtn]

\* Main::update_a_stick
update_a_stick(m, crouch_walk_option_select) ==
  AStickStored(m, StickState_update(m.a_stick, AStickInput(m, crouch_walk_option_select)))

\* -------------------------------------------------------- Input, outputs
BtnPure(b) == [k |-> "Pure", b |-> b]
BtnImpure(b) == [k |-> "Impure", b |-> b]
BtnDPad(axis, dir) == [k |-> "DPad", axis |-> axis, dir |-> dir]

InButton(button, pressed) == [t |-> "Button", button |-> button, pressed |-> pressed]
InStick(stick, xy) == [t |-> "Stick", stick |-> stick, xy |-> xy]
InTrigger(v) == [t |-> "Trigger", v |-> v]
InModifiedPress(a, btn) == [t |-> "ModifiedPress", a |-> a, btn |-> btn]
InReleaseModifier(btn, a) == [t |-> "ReleaseModifier", btn |-> btn, a |-> a]
InCStickModifier(a, c) == [t |-> "CStickModifier", a |-> a, c |-> c]

\* A slip in the D-pad arms: the two directions of each axis are exchanged.
GCButtonFrom_Swapped(button) ==
  CASE button.k = "Pure" -> button.b
    [] button.k = "Impure" -> button.b
    [] button.k = "DPad" /\ button.axis = "Y" /\ button.dir = POSITIVE -> "DDown"
    [] button.k = "DPad" /\ button.axis = "Y" /\ button.dir = NEGATIVE -> "DUp"
    [] button.k = "DPad" /\ button.axis = "X" /\ button.dir = POSITIVE -> "DLeft"
    [] button.k = "DPad" /\ button.axis = "X" /\ button.dir = NEGATIVE -> "DRight"

\* A slip in the pure arms: X and Y are exchanged.
GCButtonFrom_XY(button) ==
  CASE button.k = "Pure" -> (IF button.b = "X" THEN "Y" ELSE IF button.b = "Y" THEN "X"
                             ELSE button.b)
    [] button.k = "Impure" -> button.b
    [] button.k = "DPad" /\ button.axis = "Y" /\ button.dir = POSITIVE -> "DUp"
    [] button.k = "DPad" /\ button.axis = "Y" /\ button.dir = NEGATIVE -> "DDown"
    [] button.k = "DPad" /\ button.axis = "X" /\ button.dir = POSITIVE -> "DRight"
    [] button.k = "DPad" /\ button.axis = "X" /\ button.dir = NEGATIVE -> "DLeft"

\* impl From<Button> for GCButton
GCButtonFrom(button) ==
  CASE button.k = "Pure" -> button.b
    [] button.k = "Impure" -> button.b
    [] button.k = "DPad" /\ button.axis = "Y" /\ button.dir = POSITIVE -> "DUp"
    [] button.k = "DPad" /\ button.axis = "Y" /\ button.dir = NEGATIVE -> "DDown"
    [] button.k = "DPad" /\ button.axis = "X" /\ button.dir = POSITIVE -> "DRight"
    [] button.k = "DPad" /\ button.axis = "X" /\ button.dir = NEGATIVE -> "DLeft"

\* DolphinPipeInput
PipeButton(gc, pressed) == [t |-> "Button", button |-> gc, pressed |-> pressed]
PipeTrigger(v) == [t |-> "Trigger", v |-> v]
PipeStick(stick, xy) == [t |-> "Stick", stick |-> stick, xy |-> xy]

\* A slip in the ModifiedPress arm: the button goes out before the stick.
into_pipe_inputs_PressFirst(input) ==
  CASE input.t = "Button" -> <<PipeButton(GCButtonFrom(input.button), input.pressed)>>
    [] input.t = "Trigger" -> <<PipeTrigger(input.v)>>
    [] input.t = "Stick" -> <<PipeStick(input.stick, input.xy)>>
    [] input.t = "ModifiedPress" -> <<PipeButton(input.btn, PRESSED), PipeStick("A", input.a)>>
    [] input.t = "ReleaseModifier" -> <<PipeButton(input.btn, RELEASED), PipeStick("A", input.a)>>
    [] input.t = "CStickModifier" -> <<PipeStick("C", input.c), PipeStick("A", input.a)>>

\* A slip in the ReleaseModifier arm: the stick goes out before the button.
into_pipe_inputs_StickFirst(input) ==
  CASE input.t = "Button" -> <<PipeButton(GCButtonFrom(input.button), input.pressed)>>
    [] input.t = "Trigger" -> <<PipeTrigger(input.v)>>
    [] input.t = "Stick" -> <<PipeStick(input.stick, input.xy)>>
    [] input.t = "ModifiedPress" -> <<PipeStick("A", input.a), PipeButton(input.btn, PRESSED)>>
    [] input.t = "ReleaseModifier" -> <<PipeStick("A", input.a), PipeButton(input.btn, RELEASED)>>
    [] input.t = "CStickModifier" -> <<PipeStick("C", input.c), PipeStick("A", input.a)>>

\* A slip in the CStickModifier arm: the A-stick goes out before the C-stick.
into_pipe_inputs_AFirst(input) ==
  CASE input.t = "Button" -> <<PipeButton(GCButtonFrom(input.button), input.pressed)>>
    [] input.t = "Trigger" -> <<PipeTrigger(input.v)>>
    [] input.t = "Stick" -> <<PipeStick(input.stick, input.xy)>>
    [] input.t = "ModifiedPress" -> <<PipeStick("A", input.a), PipeButton(input.btn, PRESSED)>>
    [] input.t = "ReleaseModifier" -> <<PipeButton(input.btn, RELEASED), PipeStick("A", input.a)>>
    [] input.t = "CStickModifier" -> <<PipeStick("A", input.a), PipeStick("C", input.c)>>

\* A slip in the Button arm: the command is always a press.
into_pipe_inputs_AlwaysPress(input) ==
  CASE input.t = "Button" -> <<PipeButton(GCButtonFrom(input.button), PRESSED)>>
    [] input.t = "Trigger" -> <<PipeTrigger(input.v)>>
    [] input.t = "Stick" -> <<PipeStick(input.stick, input.xy)>>
    [] input.t = "ModifiedPress" -> <<PipeStick("A", input.a), PipeButton(input.btn, PRESSED)>>
    [] input.t = "ReleaseModifier" -> <<PipeButton(input.btn, RELEASED), PipeStick("A", input.a)>>
    [] input.t = "CStickModifier" -> <<PipeStick("C", input.c), PipeStick("A", input.a)>>

\* Input::into_pipe_inputs
into_pipe_inputs(input) ==
  CASE input.t = "Button" -> <<PipeButton(GCButtonFrom(input.button), input.pressed)>>
    [] input.t = "Trigger" -> <<PipeTrigger(input.v)>>
    [] input.t = "Stick" -> <<PipeStick(input.stick, input.xy)>>
    [] input.t = "ModifiedPress" -> <<PipeStick("A", input.a), PipeButton(input.btn, PRESSED)>>
    [] input.t = "ReleaseModifier" -> <<PipeButton(input.btn, RELEASED), PipeStick("A", input.a)>>
    [] input.t = "CStickModifier" -> <<PipeStick("C", input.c), PipeStick("A", input.a)>>

\* ------------------------------------------------------ the text encoder
\* A command string is a sequence of pieces: literal text, or a float
\* printed by "{}".  Trig(v) is the float v / 128; Unit(a, d) is the float
\* 0.5 + 0.5 * a / d.
Text(t) == [s |-> t, n |-> 0, d |-> 1]
Trig(v) == [s |-> "trig", n |-> v, d |-> 128]
Unit(a, d) == [s |-> "unit", n |-> a, d |-> d]
NewLine == Text("\n")

\* The name match of DolphinPipeInput::into_input_string.
GCButtonName(button) ==
  CASE button = "A" -> "A"
    [] button = "B" -> "B"
    [] button = "DUp" -> "D_Up"
    [] button = "DDown" -> "D_Down"
    [] button = "DLeft" -> "D_Left"
    [] button = "DRight" -> "D_Right"
    [] button = "L" -> "L"
    [] button = "R" -> "R"
    [] button = "X" -> "X"
    [] button = "Y" -> "Y"
    [] button = "Z" -> "Z"
    [] button = "Start" -> "START"

\* fn convert in DolphinPipeInput::into_input_string
convert(a) == IF a < 0 THEN Unit(a, 128) ELSE Unit(a, 127)

\* DolphinPipeInput::into_input_string
into_input_string(cmd) ==
  CASE cmd.t = "Button" ->
         <<Text(IF cmd.pressed THEN "PRESS" ELSE "RELEASE"), Text(" "),
           Text(GCButtonName(cmd.button)), NewLine>>
    [] cmd.t = "Trigger" -> <<Text("SET L "), Trig(cmd.v), NewLine>>
    [] cmd.t = "Stick" ->
         <<Text("SET "), Text(IF cmd.stick = "A" THEN "MAIN" ELSE "C"), Text(" "),
           convert(cmd.xy[1]), Text(" "), convert(cmd.xy[2])>>

\* OutputSink::send for each command in turn: the strings handed to write.
Written(cmds) == [i \in DOMAIN cmds |-> into_input_string(cmds[i])]

\* A slip in set: the flag is inserted whatever the value.
FlagSet_NoClear(state, flag, pressed) == state \cup {flag}

\* B0xxState::set
FlagSet(state, flag, pressed) == IF pressed THEN state \cup {flag} ELSE state \ {flag}

PResult(m, rtn, p) == [m |-> m, rtn |-> rtn, panic |-> p]

\* A slip in the impure-button arm: when the A-stick moves only the stick is
\* reported, the button is lost.
ImpureButtonResult_StickOnly(u, btn, pressed) ==
  IF u.rtn # None
  THEN PResult([u.m EXCEPT !.a_stick.gc_input = u.rtn[1]],
               Some(InStick("A", u.rtn[1])), FALSE)
  ELSE PResult(u.m, Some(InButton(BtnImpure(btn), pressed)), FALSE)

\* The impure-button arm of Main::process_b0xx, given the result u of
\* update_a_stick after the flag was set.
ImpureButtonResult(u, btn, pressed) ==
  IF u.rtn # None
  THEN PResult([u.m EXCEPT !.a_stick.gc_input = u.rtn[1]],
               Some(IF pressed THEN InModifiedPress(u.rtn[1], btn)
                               ELSE InReleaseModifier(btn, u.rtn[1])),
               FALSE)
  ELSE PResult(u.m, Some(InButton(BtnImpure(btn), pressed)), FALSE)

\* A slip in the impure-button arm: a release clears the flag and reports the
\* button without resolving the A-stick again.
ProcessImpureButton_StaleRelease(m, btn, pressed, cwos) ==
  IF pressed
  THEN ImpureButtonResult(update_a_stick([m EXCEPT !.state = FlagSet(m.state, btn, pressed)],
                                         cwos),
                          btn, pressed)
  ELSE PResult([m EXCEPT !.state = FlagSet(m.state, btn, pressed)],
               Some(InButton(BtnImpure(btn), pressed)), FALSE)

\* The impure-button arm of Main::process_b0xx.
ProcessImpureButton(m, btn, pressed, cwos) ==
  ImpureButtonResult(update_a_stick([m EXCEPT !.state = FlagSet(m.state, btn, pressed)], cwos),
                     btn, pressed)

\* The last match of Main::process_b0xx on the two update results.
DiffResult(ua, uc) ==
  PResult(uc.m,
          CASE ua.rtn = None /\ uc.rtn = None -> None
            [] ua.rtn # None /\ uc.rtn = None -> Some(InStick("A", ua.rtn[1]))
            [] ua.rtn = None /\ uc.rtn # None -> Some(InStick("C", uc.rtn[1]))
            [] ua.rtn # None /\ uc.rtn # None -> Some(InCStickModifier(ua.rtn[1], uc.rtn[1])),
          FALSE)

\* update_c_stick runs on the Main that update_a_stick left.
DiffAfterA(ua) == DiffResult(ua, update_c_stick(ua.m))

\* The end of Main::process_b0xx: both sticks are resolved, the A-stick
\* first, and the changed ones are reported.
DiffAndEmit(m, cwos) == DiffAfterA(update_a_stick(m, cwos))

\* A slip in the C-stick direction arm: a C-direction event in normal mode
\* resolves the C-stick only, the A-stick keeps its coordinate.
CStickResult_COnly(m, r, axis, dir, pressed, dpad_enabled, cwos) ==
  IF r.panic THEN PResult(m, None, TRUE)
  ELSE IF dpad_enabled /\ pressed
  THEN PResult([m EXCEPT !.c_stick = r.c_stick],
               Some(InButton(BtnDPad(axis, dir), PRESSED)), FALSE)
  ELSE IF r.rtn
  THEN PResult([m EXCEPT !.c_stick = r.c_stick],
               Some(InButton(BtnDPad(axis, dir), RELEASED)), FALSE)
  ELSE DiffResult([m |-> [m EXCEPT !.c_stick = r.c_stick], rtn |-> None],
                  update_c_stick([m EXCEPT !.c_stick = r.c_stick]))

\* The C-stick direction arm of Main::process_b0xx, given the result r of
\* CStickState::transition.
CStickResult(m, r, axis, dir, pressed, dpad_enabled, cwos) ==
  IF r.panic THEN PResult(m, None, TRUE)
  ELSE IF dpad_enabled /\ pressed
  THEN PResult([m EXCEPT !.c_stick = r.c_stick],
               Some(InButton(BtnDPad(axis, dir), PRESSED)), FALSE)
  ELSE IF r.rtn
  THEN PResult([m EXCEPT !.c_stick = r.c_stick],
               Some(InButton(BtnDPad(axis, dir), RELEASED)), FALSE)
  ELSE DiffAndEmit([m EXCEPT !.c_stick = r.c_stick], cwos)

\* The C-stick direction arm of Main::process_b0xx.
ProcessCStick(m, axis, dir, pressed, cwos) ==
  CStickResult(m,
               CStickState_transition(m.c_stick, axis, dir, pressed, MODS \subseteq m.state),
               axis, dir, pressed, MODS \subseteq m.state, cwos)

\* A slip in the shield arm: Medium pressed over Light sends the sum of the
\* two shield values.
ShieldResult_Layered(m, r) ==
  PResult([m EXCEPT !.shield_state = r.state],
          IF r.rtn = None THEN None
          ELSE IF r.state = ShLM /\ m.shield_state = ShL THEN Some(InTrigger(LS + MS))
          ELSE Some(InTrigger(r.rtn[1])),
          FALSE)

\* A slip in the shield arm: with ModY held the trigger is not sent.
ShieldResult_ModSilenced(m, r) ==
  PResult([m EXCEPT !.shield_state = r.state],
          IF r.rtn = None \/ "MOD_Y" \in m.state THEN None ELSE Some(InTrigger(r.rtn[1])),
          FALSE)

\* The shield arm of Main::process_b0xx, given the result r of
\* ShieldState::transition.
ShieldResult(m, r) ==
  PResult([m EXCEPT !.shield_state = r.state],
          IF r.rtn = None THEN None ELSE Some(InTrigger(r.rtn[1])),
          FALSE)

\* The body of Main::process_b0xx for the classified input b.
ProcessClassified(m, b, pressed, cwos) ==
      CASE b.cls = "Pure" /\ b.kind = "Button" ->
             PResult(m, Some(InButton(BtnPure(b.btn), pressed)), FALSE)
        [] b.cls = "Pure" /\ b.kind = "Shield" ->
             ShieldResult(m, ShieldState_transition(m.shield_state, b.shield, pressed))
        [] b.cls = "Impure" /\ b.kind = "Button" ->
             ProcessImpureButton(m, b.btn, pressed, cwos)
        [] b.cls = "Impure" /\ b.kind = "Stick" /\ b.stick = "C" ->
             ProcessCStick(m, b.axis, b.dir, pressed, cwos)
        [] b.cls = "Impure" /\ b.kind = "Stick" /\ b.stick = "A" /\ b.axis = "X" ->
             DiffAndEmit([m EXCEPT !.a_stick.x = AxisState_transition(@, b.dir, pressed)], cwos)
        [] b.cls = "Impure" /\ b.kind = "Stick" /\ b.stick = "A" /\ b.axis = "Y" ->
             DiffAndEmit([m EXCEPT !.a_stick.y = AxisState_transition(@, b.dir, pressed)], cwos)
        [] b.cls = "Impure" /\ b.kind = "ModX" ->
             DiffAndEmit([m EXCEPT !.state = FlagSet(@, "MOD_X", pressed)], cwos)
        [] b.cls = "Impure" /\ b.kind = "ModY" ->
             DiffAndEmit([m EXCEPT !.state = FlagSet(@, "MOD_Y", pressed)], cwos)

\* Main::process_b0xx: the new Main, the Option<Input> returned, and whether
\* the call panicked.
process_b0xx(m, btn, pressed, cwos) == ProcessClassified(m, B0xxFrom(btn), pressed, cwos)

\* ------------------------------------------------------------- the state
VARIABLES
  state,          \* Main.state: the held flags, a subset of {B, L, R, MOD_X, MOD_Y}
  a_stick,        \* Main.a_stick: [x, y: AxisState, gc_input]
  c_stick,        \* Main.c_stick: [x, y: DualModeAxisState, gc_input]
  shield_state,   \* Main.shield_state
  crouch_walk_option_select,  \* the command-line switch, fixed for a run
  panicked,       \* the process died in a panic
  held,           \* the mapped physical keys that are down
  nev,            \* the number of events handed to process_b0xx so far
  pad,            \* the controller as the sink has been told: buttons down, sticks, trigger
  order,          \* per stick axis, the held direction keys, oldest press first
  altHeld,        \* C-direction keys pressed while both modifier keys were down, still down
  scn,            \* the events processed so far while they follow a scenario, else Off
  arrived,        \* the events the keyboard stream has delivered, in order (event loop model)
  pending,        \* the pipe commands of the event in hand that are not yet written
  log,            \* the pipe commands written to the sink, in order
  wire            \* the part of the last command's text the pipe file accepted (sink model)

vars == <<state, a_stick, c_stick, shield_state, crouch_walk_option_select,
          panicked, held, nev, pad, order, altHeld, scn, arrived, pending, log, wire>>

\* struct Main
MainRec == [state |-> state, a_stick |-> a_stick, c_stick |-> c_stick,
            shield_state |-> shield_state]

\* Main::default()
MainDefault ==
  [state |-> {},
   a_stick |-> [x |-> AxisNull(None), y |-> AxisNull(None), gc_input |-> <<0, 0>>],
   c_stick |-> [x |-> DMNeither(AxisNull(None)), y |-> DMNeither(AxisNull(None)),
                gc_input |-> <<0, 0>>],
   shield_state |-> ShNull]

\* ------------------------------------------------------ history variables
StickAxes == {"AX", "AY", "CX", "CY"}
ModKeys == {"KEY_LEFTSHIFT", "KEY_LEFTCTRL"}
Off == <<<<"off", FALSE>>>>

\* Scenarios, as (button, pressed) events from the initial state.
\* S4 of the specification: ModX, A.X Positive, A.Y Positive, C.Y Negative.
S4 == <<<<"MX", TRUE>>, <<"Right", TRUE>>, <<"Up", TRUE>>, <<"CD", TRUE>>>>
\* S5 of the specification: ModX, ModY, C.X Positive, then ModY and C.X
\* Positive released.
S5 == <<<<"MX", TRUE>>, <<"MY", TRUE>>, <<"CR", TRUE>>, <<"MY", FALSE>>, <<"CR", FALSE>>>>
\* tests::dpad_not_modify: a latched C.X Negative, ModY released, then a diagonal.
SNotModify == <<<<"MX", TRUE>>, <<"MY", TRUE>>, <<"CL", TRUE>>, <<"MY", FALSE>>,
                <<"Right", TRUE>>, <<"Up", TRUE>>>>
\* Left, then Right over it.
SSocd == <<<<"Left", TRUE>>, <<"Right", TRUE>>>>
\* Both directions of the C.X axis latched, then released in the same order.
SBothLatched == <<<<"MX", TRUE>>, <<"MY", TRUE>>, <<"CL", TRUE>>, <<"CR", TRUE>>,
                  <<"CL", FALSE>>, <<"CR", FALSE>>>>
\* S6 of the specification: A.X Positive, ModY, B, and B released again.
S6 == <<<<"Right", TRUE>>, <<"MY", TRUE>>, <<"B", TRUE>>, <<"B", FALSE>>>>
\* A modifier event that moves both sticks: ModX, A.Y Positive, C.X Positive,
\* then ModX released.
SBothSticks == <<<<"MX", TRUE>>, <<"Up", TRUE>>, <<"CR", TRUE>>, <<"MX", FALSE>>>>
\* S2 of the specification, tests::steps shield2: Light, Medium, then Light
\* released, pressed and released again, and Medium released.
S2 == <<<<"LS", TRUE>>, <<"MS", TRUE>>, <<"LS", FALSE>>, <<"LS", TRUE>>,
        <<"LS", FALSE>>, <<"MS", FALSE>>>>
\* S3 of the specification: ModX, A.X Positive, then ModX and A.X Positive
\* released.
S3 == <<<<"MX", TRUE>>, <<"Right", TRUE>>, <<"MX", FALSE>>, <<"Right", FALSE>>>>
\* A pure button pressed and released with nothing else down.
SPure == <<<<"X", TRUE>>, <<"X", FALSE>>>>
\* A.Y Positive, then ModY pressed and released over it.
SModLaw == <<<<"Up", TRUE>>, <<"MY", TRUE>>, <<"MY", FALSE>>>>
Scenarios == {S2, S3, S4, S5, S6, SNotModify, SSocd, SBothLatched, SBothSticks, SPure, SModLaw}

IsPrefix(p, q) == Len(p) <= Len(q) /\ SubSeq(q, 1, Len(p)) = p

ScnNext(s, btn, pressed) ==
  IF s # Off /\ \E q \in Scenarios : IsPrefix(Append(s, <<btn, pressed>>), q)
  THEN Append(s, <<btn, pressed>>)
  ELSE Off

\* What one command does to the controller.
PadApply(p, cmd) ==
  CASE cmd.t = "Button" ->
         [p EXCEPT !.buttons = IF cmd.pressed THEN @ \cup {cmd.button} ELSE @ \ {cmd.button}]
    [] cmd.t = "Trigger" -> [p EXCEPT !.l = cmd.v]
    [] cmd.t = "Stick" /\ cmd.stick = "A" -> [p EXCEPT !.a = cmd.xy]
    [] cmd.t = "Stick" /\ cmd.stick = "C" -> [p EXCEPT !.c = cmd.xy]

RECURSIVE PadApplyAll(_, _)
PadApplyAll(p, cmds) ==
  IF cmds = <<>> THEN p ELSE PadApplyAll(PadApply(p, Head(cmds)), Tail(cmds))

Without(seq, d) == SelectSeq(seq, LAMBDA x : x # d)

OrderNext(o, btn, pressed) ==
  LET b == B0xxFrom(btn)
  IN  IF b.kind # "Stick" THEN o
      ELSE LET k == b.stick \o b.axis
           IN  [o EXCEPT ![k] = IF pressed THEN Append(Without(@, b.dir), b.dir)
                                           ELSE Without(@, b.dir)]

AltHeldNext(a, h, btn, pressed) ==
  LET b == B0xxFrom(btn)
  IN  IF b.kind = "Stick" /\ b.stick = "C"
      THEN IF pressed
           THEN (IF ModKeys \subseteq h THEN a \cup {btn} ELSE a \ {btn})
           ELSE a \ {btn}
      ELSE a

\* ------------------------------------------------------------------ Init
Init ==
  /\ state = MainDefault.state
  /\ a_stick = MainDefault.a_stick
  /\ c_stick = MainDefault.c_stick
  /\ shield_state = MainDefault.shield_state
  /\ crouch_walk_option_select \in BOOLEAN
  /\ panicked = FALSE
  /\ held = {}
  /\ nev = 0
  /\ pad = [buttons |-> {}, a |-> <<0, 0>>, c |-> <<0, 0>>, l |-> 0]
  /\ order = [k \in StickAxes |-> <<>>]
  /\ altHeld = {}
  /\ scn = <<>>
  /\ arrived = <<>>
  /\ pending = <<>>
  /\ log = <<>>
  /\ wire = <<>>

\* --------------------------------------------------------------- actions
\* The keyboard delivers press (1), release (0) and auto-repeat (2) events
\* of a key in the order the key physically moves.
Consistent(code, value) ==
  CASE value = 1 -> code \notin held /\ Cardinality(held) < MaxHeld
    [] value = 0 -> code \in held
    [] value = 2 -> code \in held

\* The B0xxEvent of a keyboard event the key map accepts.
EventOf(code, value) == evdev_to_b0xx(code, value)[1]

\* process_b0xx on the current state for the B0xxEvent e.
ProcessEvent(e) == process_b0xx(MainRec, e.btn, e.pressed, crouch_walk_option_select)

\* The result of process_b0xx on the current state for such an event.
Processed(code, value) == ProcessEvent(EventOf(code, value))

\* The commands the event loop sends to the sink for the result r of
\* process_b0xx, in order: none if it panicked or returned None.
Commands(r) == IF r.panic \/ r.rtn = None THEN <<>> ELSE into_pipe_inputs(r.rtn[1])

\* The commands sent for a keyboard event the key map accepts.
Emitted(code, value) == Commands(Processed(code, value))

\* One iteration of the event loop of main() for an event the key map turns
\* into a B0xxEvent: process_b0xx, then every pipe command to the sink.
KeyEvent(code, value) ==
  /\ ~panicked
  /\ nev < MaxEvents
  /\ code \in MappedKeys /\ value \in {0, 1}
  /\ Consistent(code, value)
  /\ \E e \in {EventOf(code, value)} :
       /\ \E r \in {ProcessEvent(e)} :
            /\ state' = r.m.state
            /\ a_stick' = r.m.a_stick
            /\ c_stick' = r.m.c_stick
            /\ shield_state' = r.m.shield_state
            /\ panicked' = r.panic
            /\ pad' = PadApplyAll(pad, Commands(r))
       /\ order' = OrderNext(order, e.btn, e.pressed)
       /\ altHeld' = AltHeldNext(altHeld, held, e.btn, e.pressed)
       /\ scn' = ScnNext(scn, e.btn, e.pressed)
  /\ held' = IF value = 1 THEN held \cup {code} ELSE held \ {code}
  /\ nev' = nev + 1
  /\ UNCHANGED <<crouch_walk_option_select, arrived, pending, log, wire>>

\* One iteration of the event loop for an event evdev_to_b0xx drops: an
\* auto-repeat of a held key, or any event of a key outside the map.  The
\* loop continues with nothing processed and nothing sent.
DroppedEvent(code, value) ==
  /\ ~panicked
  /\ \/ code \in MappedKeys /\ value = 2 /\ Consistent(code, value)
     \/ code = UnmappedKey /\ value \in {0, 1, 2}
  /\ evdev_to_b0xx(code, value) = None
  /\ UNCHANGED vars

Next ==
  \/ \E code \in MappedKeys, value \in {0, 1} : KeyEvent(code, value)
  \/ \E code \in MappedKeys \cup {UnmappedKey}, value \in {0, 1, 2} : DroppedEvent(code, value)

Spec == Init /\ [][Next]_vars

\* ============================================================== claims
CKeys == {"KEY_ESC", "KEY_BACKSPACE", "KEY_DOWN", "KEY_ENTER"}
ImpureKeys == {"KEY_H", "KEY_SEMICOLON", "KEY_G"}
BtnOf(code) == keyboard_to_b0xx(code)[1]

\* The D-pad button the specification assigns to a C-direction.
DPadName(btn) ==
  CASE btn = "CR" -> "DRight"
    [] btn = "CL" -> "DLeft"
    [] btn = "CU" -> "DUp"
    [] btn = "CD" -> "DDown"

\* The C axis state a C-direction button belongs to.
CAxisOf(btn) == IF B0xxFrom(btn).axis = "X" THEN c_stick.x ELSE c_stick.y

\* The step is the press (value 1) or the release (value 0) of the key.
Step(code, value) ==
  IF value = 1 THEN code \notin held /\ held' = held \cup {code}
  ELSE code \in held /\ held' = held \ {code}

\* The Main of the state a step leads to.
MainRecNext == [state |-> state', a_stick |-> a_stick', c_stick |-> c_stick',
                shield_state |-> shield_state']

Abs(n) == IF n < 0 THEN -n ELSE n

\* ------------------------------------------------------------------ C1
\* A latched D-pad button stays pressed while its C-direction key stays down.
C1_StaysPressed ==
  \A code \in CKeys :
    (BtnOf(code) \in altHeld /\ DPadName(BtnOf(code)) \in pad.buttons /\ code \in held')
      => DPadName(BtnOf(code)) \in pad'.buttons

\* The release of a latched C-direction key emits the release of its D-pad
\* button and nothing else.
C1_ReleaseEmits ==
  \A code \in CKeys :
    (Step(code, 0) /\ BtnOf(code) \in altHeld)
      => Emitted(code, 0) = <<PipeButton(DPadName(BtnOf(code)), RELEASED)>>

\* C1: D-pad permanence: a D-pad button pressed because its C-direction key
\* went down while both modifier keys were held stays pressed until that key
\* is released, whatever happens in between, and the release of that key
\* emits the D-pad release for that button and no stick command.
C1_DPadPermanence == [][C1_StaysPressed /\ C1_ReleaseEmits]_vars

\* ------------------------------------------------------------------ C2
\* C2: with both modifier keys held, a C-direction press emits exactly one
\* command, the press of the matching D-pad button, and moves no stick.
C2_DPadPress ==
  [][\A code \in CKeys :
       (Step(code, 1) /\ ModKeys \subseteq held)
         => /\ Emitted(code, 1) = <<PipeButton(DPadName(BtnOf(code)), PRESSED)>>
            /\ c_stick'.gc_input = c_stick.gc_input
            /\ a_stick' = a_stick
            /\ pad'.c = pad.c /\ pad'.a = pad.a]_vars

\* ModX, ModY, C.X Positive were pressed: D-pad Right is down, the C-stick is at rest.
C2_Witness ==
  /\ scn = SubSeq(S5, 1, 3)
  /\ pad.buttons = {"DRight"}
  /\ pad.c = <<0, 0>>

\* ------------------------------------------------------------------ C3
\* C3: a C-direction key pressed while both modifier keys were held is, for
\* as long as it stays down, never the active direction of its C axis: not
\* for the C-stick resolver (active), not for the A-stick resolver's
\* C-cardinal reading (active_unique, unique_cardinal).  So under ModX alone,
\* without L or R, an A-stick diagonal is 59, 25 in magnitude while the only
\* C-direction keys down are such keys.
C3_LatchedNeverActive ==
  /\ \A btn \in altHeld :
       /\ DualModeAxisState_active(CAxisOf(btn)) # Some(B0xxFrom(btn).dir)
       /\ DualModeAxisState_active_unique(CAxisOf(btn)) # Some(B0xxFrom(btn).dir)
       /\ unique_cardinal(c_stick) # Some(<<B0xxFrom(btn).axis, B0xxFrom(btn).dir>>)
  /\ ( /\ altHeld # {}
       /\ \A code \in CKeys \cap held : BtnOf(code) \in altHeld
       /\ state \cap MODS = {"MOD_X"} /\ state \cap LR = {}
       /\ a_stick.x.tag = "Active" /\ a_stick.y.tag = "Active" )
     => (Abs(pad.a[1]) = 59 /\ Abs(pad.a[2]) = 25)

\* tests::dpad_not_modify ran: C.X Negative is latched, only ModX is left, and
\* the diagonal is the unmodified one.
C3_Witness ==
  /\ scn = SNotModify
  /\ altHeld = {"CL"}
  /\ state = {"MOD_X"}
  /\ pad.a = <<59, 25>>

\* ------------------------------------------------------------------ C4
\* C4: while both keys of an A-stick axis are down, the emitted A-stick
\* coordinate on that axis has the sign of the more recently pressed one and
\* is not zero.
C4_SOCD ==
  /\ Len(order["AX"]) = 2 => (IF order["AX"][2] THEN pad.a[1] > 0 ELSE pad.a[1] < 0)
  /\ Len(order["AY"]) = 2 => (IF order["AY"][2] THEN pad.a[2] > 0 ELSE pad.a[2] < 0)

\* Left, then Right over it: the stick points right.
C4_Witness ==
  /\ scn = SSocd
  /\ order["AX"] = <<NEGATIVE, POSITIVE>>
  /\ pad.a = <<80, 0>>

\* ------------------------------------------------------------------ C5
\* No event sends a SET of the A-stick whose coordinate is the stored one.
C5_NoRedundantSetA ==
  \A code \in MappedKeys, value \in {0, 1} :
    Step(code, value)
      => \A i \in DOMAIN Emitted(code, value) :
           (Emitted(code, value)[i].t = "Stick" /\ Emitted(code, value)[i].stick = "A")
             => Emitted(code, value)[i].xy # a_stick.gc_input

\* C5: after every event the stored last-emitted A-stick coordinate is the
\* coordinate of the most recent A-stick command sent (0, 0 if none was), and
\* an A-stick command is sent only with a coordinate other than the stored one.
C5_StoredIsEmitted == [](a_stick.gc_input = pad.a) /\ [][C5_NoRedundantSetA]_vars

\* An A-stick command was sent and stored: A.X Positive under ModY.
C5_Witness ==
  /\ scn = SubSeq(S6, 1, 2)
  /\ a_stick.gc_input = <<27, 0>>
  /\ pad.a = <<27, 0>>

\* ------------------------------------------------------------------ C6
\* C6: after the release of B, L or R the A-stick coordinate last sent is
\* what the A-stick resolver yields for the state with that flag cleared.
C6_ReleaseResolves ==
  [][\A code \in ImpureKeys :
       Step(code, 0)
         => /\ BtnOf(code) \notin state'
            /\ pad'.a = AStickInput(MainRecNext, crouch_walk_option_select)]_vars

\* B was released under ModY with A.X Positive held: the stick is back at 27.
C6_Witness ==
  /\ scn = S6
  /\ "B" \notin state
  /\ pad.a = <<27, 0>>

\* ------------------------------------------------------------------ C7
\* The A-stick coordinate the resolver yields once the button's flag is set
\* or cleared.
AStickWithFlag(btn, pressed) ==
  AStickInput([MainRec EXCEPT !.state = FlagSet(@, btn, pressed)], crouch_walk_option_select)

\* C7: a press of B, L or R that changes the A-stick coordinate sends SET A
\* with the new coordinate, then PRESS of the button, and nothing else.
C7_ModifiedPressOrder ==
  [][\A code \in ImpureKeys :
       (Step(code, 1) /\ AStickWithFlag(BtnOf(code), PRESSED) # pad.a)
         => Emitted(code, 1) = <<PipeStick("A", AStickWithFlag(BtnOf(code), PRESSED)),
                                 PipeButton(BtnOf(code), PRESSED)>>]_vars

\* B was pressed under ModY with A.X Positive held: the stick went from 27 to 53.
C7_Witness ==
  /\ scn = SubSeq(S6, 1, 3)
  /\ "B" \in pad.buttons
  /\ pad.a = <<53, 0>>

\* ------------------------------------------------------------------ C8
\* C8: a release of B, L or R that changes the A-stick coordinate sends
\* RELEASE of the button, then SET A with the new coordinate, and nothing else.
C8_ReleaseModifierOrder ==
  [][\A code \in ImpureKeys :
       (Step(code, 0) /\ AStickWithFlag(BtnOf(code), RELEASED) # pad.a)
         => Emitted(code, 0) = <<PipeButton(BtnOf(code), RELEASED),
                                 PipeStick("A", AStickWithFlag(BtnOf(code), RELEASED))>>]_vars

\* B was released again: the button is up and the stick went from 53 to 27.
C8_Witness ==
  /\ scn = S6
  /\ "B" \notin pad.buttons
  /\ pad.a = <<27, 0>>
  /\ held = {"KEY_U", "KEY_LEFTCTRL"}

\* ------------------------------------------------------------------ C9
\* A modifier event, an A-direction event, or a C-direction event in normal
\* mode: not a press under both modifier keys, not the release of a latched key.
StickEvent(code, value) ==
  \/ B0xxFrom(BtnOf(code)).kind \in {"ModX", "ModY"}
  \/ B0xxFrom(BtnOf(code)).kind = "Stick" /\ B0xxFrom(BtnOf(code)).stick = "A"
  \/ /\ code \in CKeys
     /\ ~(value = 1 /\ ModKeys \subseteq held)
     /\ ~(value = 0 /\ BtnOf(code) \in altHeld)

\* The commands for the coordinates a and c the event leaves stored.
SticksDiff(a, c) ==
  (IF c # c_stick.gc_input THEN <<PipeStick("C", c)>> ELSE <<>>)
    \o (IF a # a_stick.gc_input THEN <<PipeStick("A", a)>> ELSE <<>>)

\* C9: such an event sends SET C then SET A when it changes both stick
\* coordinates, the one SET of the stick it changes when it changes one, and
\* nothing when it changes neither.
C9_StickOrder ==
  [][\A code \in MappedKeys, value \in {0, 1} :
       (Step(code, value) /\ StickEvent(code, value))
         => Emitted(code, value) = SticksDiff(a_stick'.gc_input, c_stick'.gc_input)]_vars

\* ModX was released with A.Y Positive and C.X Positive held: both sticks moved.
C9_Witness ==
  /\ scn = SBothSticks
  /\ pad.c = <<80, 0>>
  /\ pad.a = <<0, 80>>

\* ----------------------------------------------------------------- C10
\* C10 as claimed: scenario S4.  ModX, A.X Positive, A.Y Positive leave the
\* A-stick at (59, 25); C.Y Negative then sends SET C (0, -80), SET A (56, -29).
C10_ScenarioS4_AsClaimed ==
  [][/\ scn' = SubSeq(S4, 1, 3) => pad'.a = <<59, 25>>
     /\ scn' = S4 => /\ Emitted("KEY_ESC", 1) = <<PipeStick("C", <<0, -80>>),
                                                  PipeStick("A", <<56, -29>>)>>
                     /\ pad'.a = <<56, -29>>
                     /\ pad'.c = <<0, -80>>]_vars

\* C10 amended: scenario S4.  ModX, A.X Positive, A.Y Positive leave the
\* A-stick at (59, 25); C.Y Negative then sends SET C (0, -80), SET A (56, 29):
\* the y sign is that of the held A.Y direction, Positive.
C10_ScenarioS4 ==
  [][/\ scn' = SubSeq(S4, 1, 3) => pad'.a = <<59, 25>>
     /\ scn' = S4 => /\ Emitted("KEY_ESC", 1) = <<PipeStick("C", <<0, -80>>),
                                                  PipeStick("A", <<56, 29>>)>>
                     /\ pad'.a = <<56, 29>>
                     /\ pad'.c = <<0, -80>>]_vars

\* The four presses of S4 were made.
C10_Witness ==
  /\ scn = S4
  /\ held = {"KEY_LEFTSHIFT", "KEY_U", "KEY_Z", "KEY_ESC"}
  /\ c_stick.gc_input = <<0, -80>>
  /\ a_stick.gc_input = <<56, 29>>

\* ----------------------------------------------------------------- C11
ShieldKeys == {"KEY_R", "KEY_S"}
ShieldOf(code) == B0xxFrom(BtnOf(code)).shield
ShieldStates == {ShNull, ShM(TRUE), ShM(FALSE), ShL, ShML, ShLM}

\* The rows of the specification's shield table: from, input, pressed, to,
\* emitted trigger (<<>> for none).
ShieldRows ==
  {<<ShNull, "Light", TRUE, ShL, <<49>>>>,
   <<ShNull, "Medium", TRUE, ShM(TRUE), <<94>>>>,
   <<ShM(TRUE), "Light", TRUE, ShML, <<49>>>>,
   <<ShM(FALSE), "Light", TRUE, ShML, <<49>>>>,
   <<ShL, "Medium", TRUE, ShLM, <<94>>>>,
   <<ShML, "Light", FALSE, ShM(FALSE), <<0>>>>,
   <<ShLM, "Light", FALSE, ShM(TRUE), <<>>>>,
   <<ShML, "Medium", FALSE, ShL, <<>>>>,
   <<ShLM, "Medium", FALSE, ShL, <<49>>>>,
   <<ShM(TRUE), "Medium", FALSE, ShNull, <<0>>>>,
   <<ShL, "Light", FALSE, ShNull, <<0>>>>,
   <<ShM(FALSE), "Medium", FALSE, ShNull, <<>>>>}

\* The table's answer for a state and an input: the row's, or no change and
\* no trigger where the table has no row.
ShieldTable(s, shield, pressed) ==
  IF \E row \in ShieldRows : row[1] = s /\ row[2] = shield /\ row[3] = pressed
  THEN LET row == CHOOSE row \in ShieldRows :
                    row[1] = s /\ row[2] = shield /\ row[3] = pressed
       IN  [state |-> row[4], rtn |-> row[5]]
  ELSE [state |-> s, rtn |-> <<>>]

\* The trigger commands for an optional trigger value.
TriggerCommands(rtn) == [i \in DOMAIN rtn |-> PipeTrigger(rtn[i])]

\* ShieldState::transition agrees with the table on every state and input.
C11_TableAgrees ==
  \A s \in ShieldStates, shield \in {"Light", "Medium"}, pressed \in BOOLEAN :
    ShieldState_transition(s, shield, pressed) = ShieldTable(s, shield, pressed)

\* A shield key event moves the shield state and sends the trigger as the
\* table says.
C11_StepFollowsTable ==
  \A code \in ShieldKeys, value \in {0, 1} :
    Step(code, value)
      => /\ shield_state' = ShieldTable(shield_state, ShieldOf(code), value = 1).state
         /\ Emitted(code, value)
              = TriggerCommands(ShieldTable(shield_state, ShieldOf(code), value = 1).rtn)

\* The triggers of scenario S2, event by event.
S2Triggers == <<<<49>>, <<94>>, <<>>, <<49>>, <<0>>, <<>>>>

C11_S2Emits ==
  \A k \in 1..Len(S2) :
    scn' = SubSeq(S2, 1, k)
      => Emitted(IF S2[k][1] = "LS" THEN "KEY_R" ELSE "KEY_S", IF S2[k][2] THEN 1 ELSE 0)
           = TriggerCommands(S2Triggers[k])

\* C11: the shield state machine follows the specification's table: for each
\* of the six states and each of the four inputs the next state and the
\* trigger sent (49, 94, 0 or none) are the table's, and an input without a
\* row changes nothing and sends nothing; Light, Medium, Light released,
\* Light, Light released, Medium released sends 49, 94, nothing, 49, 0, nothing.
C11_ShieldTable == []C11_TableAgrees /\ [][C11_StepFollowsTable /\ C11_S2Emits]_vars

\* Scenario S2 ran to its end: no shield key is down and the trigger is at 0.
C11_Witness ==
  /\ scn = S2
  /\ shield_state = ShNull
  /\ pad.l = 0
  /\ held = {}

\* ----------------------------------------------------------------- C12
AKeys == {"KEY_O", "KEY_U", "KEY_E", "KEY_Z"}
AxisStates ==
  {AxisNull(None)} \cup {AxisNull(Some(d)) : d \in BOOLEAN}
    \cup {AxisActive(d, o) : d \in BOOLEAN, o \in BOOLEAN}

\* The seven rows of the specification's SOCD table, for the direction d:
\* from, direction of the event, pressed, to.
AxisRowsOf(d) ==
  {<<AxisNull(None), d, TRUE, AxisActive(d, FALSE)>>,
   <<AxisNull(Some(d)), d, FALSE, AxisNull(None)>>,
   <<AxisNull(Some(~d)), d, TRUE, AxisActive(d, TRUE)>>,
   <<AxisActive(d, FALSE), d, FALSE, AxisNull(None)>>,
   <<AxisActive(d, FALSE), ~d, TRUE, AxisActive(~d, TRUE)>>,
   <<AxisActive(d, TRUE), d, FALSE, AxisNull(Some(~d))>>,
   <<AxisActive(d, TRUE), ~d, FALSE, AxisActive(d, FALSE)>>}

AxisRows == AxisRowsOf(POSITIVE) \cup AxisRowsOf(NEGATIVE)

\* The table's answer: the row's state, or the state unchanged where the
\* table has no row.
AxisTable(s, dir, pressed) ==
  IF \E row \in AxisRows : row[1] = s /\ row[2] = dir /\ row[3] = pressed
  THEN (CHOOSE row \in AxisRows : row[1] = s /\ row[2] = dir /\ row[3] = pressed)[4]
  ELSE s

\* AxisState::transition agrees with the table on every state and input.
C12_TableAgrees ==
  \A s \in AxisStates, dir \in BOOLEAN, pressed \in BOOLEAN :
    AxisState_transition(s, dir, pressed) = AxisTable(s, dir, pressed)

\* An A-direction key event moves its axis as the table says, leaves the
\* other axis alone, and does not fail.
C12_StepFollowsTable ==
  \A code \in AKeys, value \in {0, 1} :
    Step(code, value)
      => /\ ~panicked'
         /\ IF B0xxFrom(BtnOf(code)).axis = "X"
            THEN /\ a_stick'.x = AxisTable(a_stick.x, B0xxFrom(BtnOf(code)).dir, value = 1)
                 /\ a_stick'.y = a_stick.y
            ELSE /\ a_stick'.y = AxisTable(a_stick.y, B0xxFrom(BtnOf(code)).dir, value = 1)
                 /\ a_stick'.x = a_stick.x

\* C12: the per-axis SOCD resolver follows the specification's table: for
\* every AxisState and every (direction, pressed) input the next state is
\* that of the seven rows, and an input without a row leaves the state as it
\* is, without failure.
C12_AxisTable == []C12_TableAgrees /\ [][C12_StepFollowsTable]_vars

\* Left, Right over it, and Right released: the axis is Null and remembers
\* that Left is still down.
C12_Witness ==
  /\ held = {"KEY_O"}
  /\ order["AX"] = <<NEGATIVE>>
  /\ a_stick.x = AxisNull(Some(NEGATIVE))

\* ----------------------------------------------------------------- C13
\* The key of a direction of a stick axis.
KeyOf(k, d) ==
  CASE k = "AX" -> IF d THEN "KEY_U" ELSE "KEY_O"
    [] k = "AY" -> IF d THEN "KEY_Z" ELSE "KEY_E"
    [] k = "CX" -> IF d THEN "KEY_ENTER" ELSE "KEY_BACKSPACE"
    [] k = "CY" -> IF d THEN "KEY_DOWN" ELSE "KEY_ESC"

\* The active direction of a stick axis, before and after a step.
ActiveOf(k) ==
  CASE k = "AX" -> AxisState_active(a_stick.x)
    [] k = "AY" -> AxisState_active(a_stick.y)
    [] k = "CX" -> DualModeAxisState_active(c_stick.x)
    [] k = "CY" -> DualModeAxisState_active(c_stick.y)

ActiveOfNext(k) ==
  CASE k = "AX" -> AxisState_active(a_stick'.x)
    [] k = "AY" -> AxisState_active(a_stick'.y)
    [] k = "CX" -> DualModeAxisState_active(c_stick'.x)
    [] k = "CY" -> DualModeAxisState_active(c_stick'.y)

\* The axis is driven by the SOCD resolver in this step: an A axis, or a C
\* axis in normal mode (no key of it latched as D-pad, before or after).
SocdDriven(k) ==
  CASE k \in {"AX", "AY"} -> TRUE
    [] k = "CX" -> c_stick.x.tag = "Neither" /\ c_stick'.x.tag = "Neither"
                   /\ altHeld \cap {"CL", "CR"} = {}
    [] k = "CY" -> c_stick.y.tag = "Neither" /\ c_stick'.y.tag = "Neither"
                   /\ altHeld \cap {"CU", "CD"} = {}

\* The opposing direction pressed over an active one becomes the active one.
C13_NewerWins ==
  \A k \in StickAxes, d \in BOOLEAN :
    (Step(KeyOf(k, d), 1) /\ SocdDriven(k) /\ KeyOf(k, ~d) \in held /\ ActiveOf(k) = Some(~d))
      => ActiveOfNext(k) = Some(d)

\* As claimed: the release of the winner makes the held, suppressed direction
\* the active one.
C13_RevivesOnWinnerRelease ==
  \A k \in StickAxes, w \in BOOLEAN :
    (Step(KeyOf(k, w), 0) /\ SocdDriven(k) /\ KeyOf(k, ~w) \in held /\ ActiveOf(k) = Some(w))
      => ActiveOfNext(k) = Some(~w)

\* As claimed: a held direction that was not active becomes active in no
\* step but the release of the winner.
C13_RevivesOnlyThen ==
  \A k \in StickAxes, d \in BOOLEAN :
    ( /\ SocdDriven(k) /\ KeyOf(k, d) \in held /\ KeyOf(k, d) \in held'
      /\ ActiveOf(k) # Some(d) /\ ActiveOfNext(k) = Some(d) )
      => (Step(KeyOf(k, ~d), 0) /\ ActiveOf(k) = Some(~d))

\* C13 as claimed: second-press-wins, and the held-but-suppressed direction
\* becomes the active direction again on the release of the winner and on no
\* other event.
C13_SecondPressWins_AsClaimed ==
  [][C13_NewerWins /\ C13_RevivesOnWinnerRelease /\ C13_RevivesOnlyThen]_vars

\* The release of the winner leaves the axis with no active direction.
C13_NeutralOnWinnerRelease ==
  \A k \in StickAxes, w \in BOOLEAN :
    (Step(KeyOf(k, w), 0) /\ SocdDriven(k) /\ KeyOf(k, ~w) \in held /\ ActiveOf(k) = Some(w))
      => ActiveOfNext(k) = None

\* A held direction that is not active does not become active while it
\* stays held.
C13_NeverRevives ==
  \A k \in StickAxes, d \in BOOLEAN :
    ( /\ SocdDriven(k) /\ KeyOf(k, d) \in held /\ KeyOf(k, d) \in held'
      /\ ActiveOf(k) # Some(d) )
      => ActiveOfNext(k) # Some(d)

\* In AxisState::transition itself: the release of the winner gives Null
\* remembering the held direction, and no input makes a suppressed direction
\* the active one.
C13_TransitionNeverRevives ==
  \A d \in BOOLEAN :
    /\ AxisState_transition(AxisActive(~d, TRUE), ~d, FALSE) = AxisNull(Some(d))
    /\ \A s \in {AxisActive(~d, TRUE), AxisNull(Some(d))}, dir \in BOOLEAN, pressed \in BOOLEAN :
         AxisState_active(AxisState_transition(s, dir, pressed)) # Some(d)

\* C13 amended: second-press-wins without reactivation: the opposing
\* direction pressed over an active one becomes the active one and the older,
\* still-held direction is suppressed; the release of the winner leaves the
\* axis with no active direction (Null, remembering the held direction), and
\* the suppressed direction becomes active again on no event while it stays
\* held.
C13_SecondPressWins ==
  /\ []C13_TransitionNeverRevives
  /\ [][C13_NewerWins /\ C13_NeutralOnWinnerRelease /\ C13_NeverRevives]_vars

\* Down, Up over it, and Up released: Down is still held, the axis is
\* neutral and the stick was sent back to the centre.
C13_Witness ==
  /\ held = {"KEY_E"}
  /\ order["AY"] = <<NEGATIVE>>
  /\ AxisState_active(a_stick.y) = None
  /\ a_stick.y.held = Some(NEGATIVE)
  /\ pad.a = <<0, 0>>

\* ----------------------------------------------------------------- C14
\* The modifier keys that are down: "X", "Y", or "none" for neither or both.
ModsHeld ==
  CASE "KEY_LEFTSHIFT" \in held /\ "KEY_LEFTCTRL" \notin held -> "X"
    [] "KEY_LEFTCTRL" \in held /\ "KEY_LEFTSHIFT" \notin held -> "Y"
    [] OTHER -> "none"

\* The specification's cardinal magnitudes.
CardinalXTable ==
  CASE Len(order["AX"]) = 2 -> 80
    [] ModsHeld = "X" -> 53
    [] ModsHeld = "Y" /\ "KEY_H" \in held -> 53
    [] ModsHeld = "Y" /\ "KEY_H" \notin held -> 27
    [] OTHER -> 80

CardinalYTable ==
  CASE ModsHeld = "X" -> 43
    [] ModsHeld = "Y" -> 59
    [] OTHER -> 80

Sign(opt) == IF opt = None THEN 0 ELSE IF opt[1] THEN 1 ELSE -1

\* C14: A-stick cardinals: whenever exactly one A axis is active the A-stick
\* coordinate sent is the active direction's sign times the table magnitude,
\* and 0 on the other axis: for A.X alone 53 (only ModX, or only ModY with
\* B, opposing key up), 27 (only ModY without B, opposing key up), 80
\* otherwise; for A.Y alone 43 with only ModX, 59 with only ModY, 80
\* otherwise.  ModX, A.X Positive gives (53, 0), ModX released (80, 0), A.X
\* Positive released (0, 0).
C14_Cardinals ==
  /\ (ActiveOf("AX") # None /\ ActiveOf("AY") = None)
       => /\ pad.a = <<Sign(ActiveOf("AX")) * CardinalXTable, 0>>
          /\ AStickInput(MainRec, crouch_walk_option_select) = pad.a
  /\ (ActiveOf("AX") = None /\ ActiveOf("AY") # None)
       => /\ pad.a = <<0, Sign(ActiveOf("AY")) * CardinalYTable>>
          /\ AStickInput(MainRec, crouch_walk_option_select) = pad.a
  /\ scn = SubSeq(S3, 1, 2) => pad.a = <<53, 0>>
  /\ scn = SubSeq(S3, 1, 3) => pad.a = <<80, 0>>
  /\ scn = S3 => pad.a = <<0, 0>>

\* ModX was released with A.X Positive held: the stick went from 53 to 80.
C14_Witness ==
  /\ scn = SubSeq(S3, 1, 3)
  /\ held = {"KEY_U"}
  /\ pad.a = <<80, 0>>

\* ----------------------------------------------------------------- C15
\* The modifier keys that are down in the set of keys h.
ModsIn(h) ==
  CASE "KEY_LEFTSHIFT" \in h /\ "KEY_LEFTCTRL" \notin h -> "X"
    [] "KEY_LEFTCTRL" \in h /\ "KEY_LEFTSHIFT" \notin h -> "Y"
    [] OTHER -> "none"

\* The specification's diagonal magnitudes for the modifier keys, whether L
\* or R is down, the C-stick's unique cardinal, the A.Y direction and the
\* crouch-walk switch.
DiagonalTable(mods, lrHeld, cCard, yPositive, cwos) ==
  CASE mods = "X" /\ lrHeld -> <<51, 30>>
    [] mods = "X" /\ ~lrHeld /\ cCard = Some(<<"Y", NEGATIVE>>) -> <<56, 29>>
    [] mods = "X" /\ ~lrHeld /\ cCard = Some(<<"X", NEGATIVE>>) -> <<63, 39>>
    [] mods = "X" /\ ~lrHeld /\ cCard = Some(<<"Y", POSITIVE>>) -> <<56, 41>>
    [] mods = "X" /\ ~lrHeld /\ cCard = Some(<<"X", POSITIVE>>) -> <<49, 42>>
    [] mods = "X" /\ ~lrHeld /\ cCard = None -> <<59, 25>>
    [] mods = "Y" /\ lrHeld /\ yPositive -> <<38, 70>>
    [] mods = "Y" /\ lrHeld /\ ~yPositive -> <<40, 68>>
    [] mods = "Y" /\ ~lrHeld /\ cCard = Some(<<"X", POSITIVE>>) -> <<51, 61>>
    [] mods = "Y" /\ ~lrHeld /\ cCard = Some(<<"Y", POSITIVE>>) -> <<41, 56>>
    [] mods = "Y" /\ ~lrHeld /\ cCard = Some(<<"X", NEGATIVE>>) -> <<39, 63>>
    [] mods = "Y" /\ ~lrHeld /\ cCard = Some(<<"Y", NEGATIVE>>) -> <<29, 56>>
    [] mods = "Y" /\ ~lrHeld /\ cCard = None -> <<25, 59>>
    [] mods = "none" /\ cwos /\ ~yPositive -> <<57, 55>>
    [] mods = "none" /\ ~(cwos /\ ~yPositive) -> <<56, 56>>

\* The diagonal coordinate the table gives for the keys h that are down, the
\* C-stick c and the A-stick a (both of its axes active).
DiagonalExpected(h, c, a) ==
  LET t == DiagonalTable(ModsIn(h), h \cap {"KEY_SEMICOLON", "KEY_G"} # {},
                         unique_cardinal(c), a.y.dir, crouch_walk_option_select)
  IN  <<(IF a.x.dir THEN 1 ELSE -1) * t[1], (IF a.y.dir THEN 1 ELSE -1) * t[2]>>

\* With both A axes active the resolver yields the table's coordinate.
C15_Resolved ==
  (a_stick.x.tag = "Active" /\ a_stick.y.tag = "Active")
    => AStickInput(MainRec, crouch_walk_option_select)
         = DiagonalExpected(held, c_stick, a_stick)

\* An event that resolves the A-stick and leaves both A axes active leaves
\* the table's coordinate as the one sent.
C15_Sent ==
  \A code \in MappedKeys, value \in {0, 1} :
    ( /\ Step(code, value)
      /\ (StickEvent(code, value) \/ code \in ImpureKeys)
      /\ a_stick'.x.tag = "Active" /\ a_stick'.y.tag = "Active" )
      => pad'.a = DiagonalExpected(held', c_stick', a_stick')

\* C15: A-stick diagonals: whenever both A axes are active the resolved
\* A-stick coordinate is (sign(A.X) |x|, sign(A.Y) |y|) with the magnitudes
\* of the diagonal table, keyed by the modifier state (only ModX, only ModY,
\* none or both), whether L or R is held, and the C-stick's unique cardinal.
C15_Diagonals == []C15_Resolved /\ [][C15_Sent]_vars

\* ModY, A.X Positive, A.Y Negative and C.X Negative are down.
C15_Witness ==
  /\ held = {"KEY_LEFTCTRL", "KEY_U", "KEY_E", "KEY_BACKSPACE"}
  /\ unique_cardinal(c_stick) = Some(<<"X", NEGATIVE>>)
  /\ pad.a = <<39, -63>>

\* ----------------------------------------------------------------- C16
\* The specification's C-stick coordinate for the active directions cx, cy of
\* the C axes, the keys h that are down and the A-stick a.
CStickTable(cx, cy, h, a) ==
  CASE cx = None /\ cy = None -> <<0, 0>>
    [] cx = None /\ cy # None -> <<0, Sign(cy) * 80>>
    [] cx # None /\ cy # None -> <<Sign(cx) * 42, Sign(cy) * 68>>
    [] cx # None /\ cy = None ->
         IF ModsIn(h) = "X" /\ AxisState_active(a.y) # None /\ AxisState_active(a.x) = None
         THEN <<Sign(cx) * 65, Sign(AxisState_active(a.y)) * 23>>
         ELSE <<Sign(cx) * 80, 0>>

\* The C-stick resolver yields the table's coordinate.
C16_Resolved ==
  CStickInput(MainRec)
    = CStickTable(ActiveOf("CX"), ActiveOf("CY"), held, a_stick)

\* An event that resolves the sticks leaves the table's coordinate as the
\* C-stick coordinate sent.
C16_Sent ==
  \A code \in MappedKeys, value \in {0, 1} :
    (Step(code, value) /\ StickEvent(code, value) /\ ~panicked')
      => pad'.c = CStickTable(ActiveOfNext("CX"), ActiveOfNext("CY"), held', a_stick')

\* The release of the key of a lone active C.X direction sends the C-stick
\* back to the centre.
C16_ReleaseRecentres ==
  \A d \in BOOLEAN :
    (Step(KeyOf("CX", d), 0) /\ ActiveOf("CX") = Some(d) /\ ActiveOf("CY") = None)
      => (pad'.c = <<0, 0>> /\ c_stick'.gc_input = <<0, 0>>)

\* C16: the C-stick resolver in normal mode: (0, 0) with no C axis active,
\* (0, sign 80) with C.Y alone, (sign 42, sign 68) with both, and with C.X
\* alone (sign(C.X) 65, sign(A.Y) 23) if exactly ModX is held and the A-stick
\* has A.Y active and A.X not, (sign(C.X) 80, 0) otherwise; releasing the
\* C.X key brings the C-stick back to (0, 0).
C16_CStickResolver == []C16_Resolved /\ [][C16_Sent /\ C16_ReleaseRecentres]_vars

\* tests::tilt_fsmash: ModX, A.Y Positive, C.X Positive are down and the
\* C-stick is tilted.
C16_Witness ==
  /\ scn = SubSeq(SBothSticks, 1, 3)
  /\ held = {"KEY_LEFTSHIFT", "KEY_Z", "KEY_ENTER"}
  /\ pad.c = <<65, 23>>

\* ----------------------------------------------------------------- C17
InRange(xy) == xy[1] \in -80..80 /\ xy[2] \in -80..80

\* Every stick command of an event carries a coordinate in range.
C17_EmittedInRange ==
  \A code \in MappedKeys, value \in {0, 1} :
    Step(code, value)
      => \A i \in DOMAIN Emitted(code, value) :
           Emitted(code, value)[i].t = "Stick" => InRange(Emitted(code, value)[i].xy)

\* C17: for every input sequence, every A-stick and C-stick coordinate sent
\* has both components in the closed range -80..80.
C17_SticksInRange ==
  /\ [](InRange(pad.a) /\ InRange(pad.c))
  /\ [][C17_EmittedInRange]_vars

\* Both sticks were sent to an end of the range: A.X Negative and C.Y
\* Positive are down, nothing else.
C17_Witness ==
  /\ held = {"KEY_O", "KEY_DOWN"}
  /\ pad.a = <<-80, 0>>
  /\ pad.c = <<0, 80>>

\* ----------------------------------------------------------------- C18
\* Every trigger command of an event carries 0, 49 or 94.
C18_EmittedInRange ==
  \A code \in MappedKeys, value \in {0, 1} :
    Step(code, value)
      => \A i \in DOMAIN Emitted(code, value) :
           Emitted(code, value)[i].t = "Trigger"
             => /\ Emitted(code, value)[i].v \in 0..140
                /\ Emitted(code, value)[i].v \in {0, 49, 94}

\* C18: for every input sequence, every trigger value sent lies in 0..140,
\* and is one of 0, 49 and 94.
C18_TriggerInRange ==
  /\ [](pad.l \in 0..140 /\ pad.l \in {0, 49, 94})
  /\ [][C18_EmittedInRange]_vars

\* Medium was pressed over Light: the trigger is at 94.
C18_Witness ==
  /\ held = {"KEY_R", "KEY_S"}
  /\ shield_state = ShLM
  /\ pad.l = 94

\* ----------------------------------------------------------------- C19
PureKeys == {"KEY_SPACE", "KEY_T", "KEY_C", "KEY_N", "KEY_Y", "KEY_F"}

\* The controller button the specification assigns to a pure key.
PureName(code) ==
  CASE code = "KEY_SPACE" -> "A"
    [] code = "KEY_T" -> "X"
    [] code = "KEY_C" -> "Y"
    [] code = "KEY_N" -> "Z"
    [] code \in {"KEY_Y", "KEY_F"} -> "Start"

\* The controller at rest, with the buttons b down.
PadAtRest(b) == [buttons |-> b, a |-> <<0, 0>>, c |-> <<0, 0>>, l |-> 0]

\* C19: from the initial state with no other key held, pressing and then
\* releasing a single pure button (A, X, Y, Z, Start) sends exactly PRESS and
\* then RELEASE of that button and leaves the translator in the initial
\* output state: A-stick (0, 0), C-stick (0, 0), trigger 0.
C19_PureRoundTrip ==
  [][\A code \in PureKeys :
       /\ (nev = 0 /\ Step(code, 1))
            => /\ Emitted(code, 1) = <<PipeButton(PureName(code), PRESSED)>>
               /\ pad' = PadAtRest({PureName(code)})
               /\ MainRecNext = MainDefault
       /\ (nev = 1 /\ held = {code} /\ Step(code, 0))
            => /\ Emitted(code, 0) = <<PipeButton(PureName(code), RELEASED)>>
               /\ pad' = PadAtRest({})
               /\ MainRecNext = MainDefault]_vars

\* X was pressed and released: the controller is at rest again.
C19_Witness ==
  /\ scn = SPure
  /\ held = {}
  /\ pad = PadAtRest({})
  /\ MainRec = MainDefault

\* ----------------------------------------------------------------- C20
\* The A-stick coordinate of the A-direction key pressed alone.
Alone(code) ==
  CASE code = "KEY_U" -> <<80, 0>>
    [] code = "KEY_O" -> <<-80, 0>>
    [] code = "KEY_Z" -> <<0, 80>>
    [] code = "KEY_E" -> <<0, -80>>

\* C20: from the initial state, for each modifier (ModX, ModY) and each
\* A-direction, pressing the two in either order and then releasing the
\* modifier leaves the A-stick coordinate last sent equal to the one that
\* pressing the direction alone gives.
C20_ModifierLaw ==
  [][\A d \in AKeys :
       /\ (nev = 0 /\ Step(d, 1)) => pad'.a = Alone(d)
       /\ \A m \in ModKeys :
            (nev = 2 /\ held = {m, d} /\ Step(m, 0)) => pad'.a = Alone(d)]_vars

\* ModY was pressed and released over A.Y Positive: the stick is back at 80.
C20_Witness ==
  /\ scn = SModLaw
  /\ held = {"KEY_Z"}
  /\ pad.a = <<0, 80>>

\* ----------------------------------------------------------------- C21
\* The string is one line: it ends with a newline and holds no other.
OneLine(str) ==
  /\ Len(str) > 0
  /\ str[Len(str)] = NewLine
  /\ \A i \in 1..(Len(str) - 1) : str[i] # NewLine

\* C21: every command string the encoder produces is newline-terminated:
\* PRESS and RELEASE, SET L, SET MAIN and SET C all end with a single
\* newline, so no two commands are written on one line.
C21_NewlineTerminated ==
  [][\A code \in MappedKeys, value \in {0, 1} :
       Step(code, value)
         => \A i \in DOMAIN Emitted(code, value) :
              OneLine(Written(Emitted(code, value))[i])]_vars

\* ----------------------------------------------------------------- C22
\* The specification's button names.
PipeNames == {"A", "B", "X", "Y", "Z", "L", "R", "START",
              "D_UP", "D_DOWN", "D_LEFT", "D_RIGHT"}

\* The specification's name for the D-pad button of a C-direction.
DPadPipeName(btn) ==
  CASE btn = "CU" -> "D_UP"
    [] btn = "CD" -> "D_DOWN"
    [] btn = "CL" -> "D_LEFT"
    [] btn = "CR" -> "D_RIGHT"

\* C22: the button name written to the pipe is always one of A, B, X, Y, Z,
\* L, R, START, D_UP, D_DOWN, D_LEFT, D_RIGHT, and the D-pad buttons of
\* (Y, Pos), (Y, Neg), (X, Neg), (X, Pos) are written D_UP, D_DOWN, D_LEFT,
\* D_RIGHT.
C22_ButtonNames ==
  [][\A code \in MappedKeys, value \in {0, 1} :
       Step(code, value)
         => \A i \in DOMAIN Emitted(code, value) :
              Emitted(code, value)[i].t = "Button"
                => /\ Written(Emitted(code, value))[i][3].s \in PipeNames
                   /\ (code \in CKeys
                         => Written(Emitted(code, value))[i][3].s
                              = DPadPipeName(BtnOf(code)))]_vars

\* ----------------------------------------------------------------- C23
\* With both A.X keys down and no A.Y direction active the stick is at full
\* tilt towards the later pressed of the two.
C23_FullTilt ==
  (Len(order["AX"]) = 2 /\ ActiveOf("AY") = None)
    => pad.a = <<(IF order["AX"][2] THEN 80 ELSE -80), 0>>

\* Left and Right are down, nothing else was done, and a modifier is
\* pressed: nothing is sent.
C23_ModifierLastIsSilent ==
  \A m \in ModKeys :
    (nev = 2 /\ held = {"KEY_O", "KEY_U"} /\ Step(m, 1))
      => (Emitted(m, 1) = <<>> /\ pad' = pad)

\* C23: the ledgedash rule: while both A.X directions are held and no A.Y
\* direction is active the A-stick is at 80 in the more recently pressed
\* direction whatever ModX and ModY are; Left, Right and one modifier pressed
\* in any order end at (+-80, 0) after the later direction, and a modifier
\* pressed last sends nothing.
C23_Ledgedash == []C23_FullTilt /\ [][C23_ModifierLastIsSilent]_vars

\* Right, Left and ModX were pressed, in some order with Left after Right.
C23_Witness ==
  /\ nev = 3
  /\ held = {"KEY_O", "KEY_U", "KEY_LEFTSHIFT"}
  /\ order["AX"] = <<POSITIVE, NEGATIVE>>
  /\ pad.a = <<-80, 0>>

\* ----------------------------------------------------------------- C24
\* The keys of the modifiers, of B, L and R, and of the A- and C-directions.
IndepKeys == ModKeys \cup ImpureKeys \cup AKeys \cup CKeys

\* No two opposing directions of one axis, and not both modifiers together
\* with a C-direction.
Admissible(h) ==
  /\ \A k \in StickAxes : ~({KeyOf(k, POSITIVE), KeyOf(k, NEGATIVE)} \subseteq h)
  /\ ~(ModKeys \subseteq h /\ h \cap CKeys # {})

\* One iteration of the event loop for the event (code, value) of a mapped
\* key: process_b0xx, then every pipe command to the sink.
Deliver(code, value) ==
  /\ \E e \in {EventOf(code, value)} :
       /\ \E r \in {ProcessEvent(e)} :
            /\ state' = r.m.state
            /\ a_stick' = r.m.a_stick
            /\ c_stick' = r.m.c_stick
            /\ shield_state' = r.m.shield_state
            /\ panicked' = r.panic
            /\ pad' = PadApplyAll(pad, Commands(r))
       /\ order' = OrderNext(order, e.btn, e.pressed)
       /\ altHeld' = AltHeldNext(altHeld, held, e.btn, e.pressed)
       /\ scn' = ScnNext(scn, e.btn, e.pressed)
  /\ held' = IF value = 1 THEN held \cup {code} ELSE held \ {code}
  /\ nev' = nev + 1
  /\ UNCHANGED <<crouch_walk_option_select, arrived, pending, log, wire>>

\* The press of one more of these keys, nothing being released.
PressOnly(code) ==
  /\ ~panicked
  /\ code \in IndepKeys /\ code \notin held
  /\ Admissible(held \cup {code})
  /\ Deliver(code, 1)

NextPresses == \E code \in IndepKeys : PressOnly(code)

\* The runs that only press keys of an admissible set, in any order.
SpecPresses == Init /\ [][NextPresses]_vars

\* One fixed order of the keys.
KeyOrder ==
  <<"KEY_LEFTSHIFT", "KEY_LEFTCTRL", "KEY_H", "KEY_SEMICOLON", "KEY_G",
    "KEY_O", "KEY_U", "KEY_E", "KEY_Z",
    "KEY_BACKSPACE", "KEY_ENTER", "KEY_ESC", "KEY_DOWN">>

InOrder(h) == SelectSeq(KeyOrder, LAMBDA k : k \in h)

\* The controller after pressing the keys of the sequence one after the
\* other, from the Main m and the controller p.
RECURSIVE PressAll(_, _, _)
PressAllNext(r, p, rest) == PressAll(r.m, PadApplyAll(p, Commands(r)), rest)
PressAll(m, p, keys) ==
  IF keys = <<>> THEN p
  ELSE PressAllNext(process_b0xx(m, BtnOf(Head(keys)), PRESSED, crouch_walk_option_select),
                    p, Tail(keys))

\* C24: press-order independence: for a set of keys drawn from ModX, ModY,
\* B, L, R, the A-directions and the C-directions, without two opposing
\* directions of one axis and without both modifiers together with a
\* C-direction, pressing them all from the initial state leaves the same
\* last sent A-stick and C-stick coordinates whatever the order: those of
\* the one fixed order.
C24_OrderIndependent ==
  /\ pad.a = PressAll(MainDefault, PadAtRest({}), InOrder(held)).a
  /\ pad.c = PressAll(MainDefault, PadAtRest({}), InOrder(held)).c

\* ModX, B, a diagonal and C-down are all down: five keys, pressed in any of
\* their orders.
C24_Witness ==
  /\ held = {"KEY_LEFTSHIFT", "KEY_H", "KEY_U", "KEY_Z", "KEY_ESC"}
  /\ nev = 5
  /\ pad.a = <<56, 29>>
  /\ pad.c = <<0, -80>>

\* ----------------------------------------------------------------- C25
\* C25: every pure button event (A, X, Y, Z, Start; press or release), in
\* any reachable state, sends exactly one command, the press or release of
\* that button with the event's pressed value, and changes no translator
\* state: flags, axis states, shield state and stored coordinates stay.
C25_PureFrame ==
  [][\A code \in PureKeys, value \in {0, 1} :
       Step(code, value)
         => /\ Emitted(code, value) = <<PipeButton(PureName(code), value = 1)>>
            /\ MainRecNext = MainRec
            /\ ~panicked']_vars

\* Z was pressed with ModX and A.X Positive down.
C25_Witness ==
  /\ held = {"KEY_LEFTSHIFT", "KEY_U", "KEY_N"}
  /\ pad.buttons = {"Z"}
  /\ pad.a = <<53, 0>>
  /\ state = {"MOD_X"}

\* ----------------------------------------------------------------- C26
\* The positions of the command c in the sequence of commands e.
Positions(e, c) == {i \in DOMAIN e : e[i] = c}

\* C26: every impure button event (B, L, R; press or release), in any
\* reachable state, sends the press or release of that button exactly once:
\* alone when the A-stick coordinate does not change, within the two-command
\* composite with the A-stick command when it does; it is never swallowed and
\* never sends a C-stick, trigger or D-pad command.
C26_ImpureEmit ==
  [][\A code \in ImpureKeys, value \in {0, 1} :
       Step(code, value)
         => /\ Cardinality(Positions(Emitted(code, value),
                                     PipeButton(BtnOf(code), value = 1))) = 1
            /\ \A i \in DOMAIN Emitted(code, value) :
                 \/ Emitted(code, value)[i] = PipeButton(BtnOf(code), value = 1)
                 \/ /\ Emitted(code, value)[i].t = "Stick"
                    /\ Emitted(code, value)[i].stick = "A"
            /\ Len(Emitted(code, value))
                 = (IF AStickWithFlag(BtnOf(code), value = 1) = a_stick.gc_input
                    THEN 1 ELSE 2)
            /\ pad'.c = pad.c /\ pad'.l = pad.l
            /\ c_stick' = c_stick /\ shield_state' = shield_state]_vars

\* L was pressed over a ModX diagonal: the button is down and the stick
\* moved from (59, 25) to (51, 30).
C26_Witness ==
  /\ held = {"KEY_LEFTSHIFT", "KEY_U", "KEY_Z", "KEY_SEMICOLON"}
  /\ "L" \in pad.buttons
  /\ pad.a = <<51, 30>>

\* ----------------------------------------------------------------- C27
\* A shield event sends what the shield state alone determines and changes
\* nothing but the shield state.
C27_ShieldStep ==
  \A code \in ShieldKeys, value \in {0, 1} :
    Step(code, value)
      => /\ Emitted(code, value)
              = TriggerCommands(ShieldTable(shield_state, ShieldOf(code), value = 1).rtn)
         /\ shield_state' = ShieldTable(shield_state, ShieldOf(code), value = 1).state
         /\ state' = state /\ a_stick' = a_stick /\ c_stick' = c_stick
         /\ pad'.a = pad.a /\ pad'.c = pad.c /\ pad'.buttons = pad.buttons

\* Any other event leaves the shield state alone and sends no trigger.
C27_OtherStep ==
  \A code \in MappedKeys \ ShieldKeys, value \in {0, 1} :
    Step(code, value)
      => /\ shield_state' = shield_state
         /\ pad'.l = pad.l
         /\ \A i \in DOMAIN Emitted(code, value) : Emitted(code, value)[i].t # "Trigger"

\* C27: shield outputs are independent of all other state: the trigger
\* commands of a key sequence are those of its shield events alone, whatever
\* is interleaved (each is a function of the shield state, which only shield
\* events move), and a shield event changes only the shield state, never
\* the flags, the axis states or the stored coordinates.
C27_ShieldIndependent == [][C27_ShieldStep /\ C27_OtherStep]_vars

\* Light shield was pressed with ModY and A.X Positive down.
C27_Witness ==
  /\ held = {"KEY_LEFTCTRL", "KEY_U", "KEY_R"}
  /\ shield_state = ShL
  /\ pad.l = 49
  /\ pad.a = <<27, 0>>

\* ----------------------------------------------------------------- C29
\* C29: no panic: for every physically consistent key sequence from the
\* initial state process_b0xx never panics; neither panic branch of
\* DualModeAxisState::transition is reachable.
C29_NoPanic == ~panicked

\* ----------------------------------------------------------------- C30
\* C30: return to neutral: after a physically consistent key sequence at
\* whose end no key is held every output is neutral: both sticks were last
\* sent to (0, 0), the trigger to 0, and no button, D-pad buttons included,
\* is left pressed.
C30_ReturnToNeutral == held = {} => pad = PadAtRest({})

\* ----------------------------------------------------------------- C28
\* The event loop of main(), statement by statement: the keyboard stream
\* receives events while the loop is busy; one iteration takes the oldest
\* unread event, runs process_b0xx and then writes the pipe commands one
\* send at a time; try_next is reached again only after the for loop.
MaxLoopEvents == 4

\* MX, MY, A.X Positive, A.Y Positive, B and C.X Positive: enough for
\* every composite.
LoopKeys == {"KEY_LEFTSHIFT", "KEY_LEFTCTRL", "KEY_U", "KEY_Z", "KEY_H", "KEY_ENTER"}

\* A slip in the for loop: the commands are taken from the back.
SendCommand_Last(q) == q[Len(q)]

\* The command the for loop over into_pipe_inputs() hands to sink.send next.
SendCommand(q) == Head(q)

\* The keyboard delivers one more event to the stream.
Arrive(code, value) ==
  /\ ~panicked
  /\ Len(arrived) < MaxLoopEvents
  /\ code \in LoopKeys /\ value \in {0, 1}
  /\ Consistent(code, value)
  /\ arrived' = Append(arrived, <<code, value>>)
  /\ held' = IF value = 1 THEN held \cup {code} ELSE held \ {code}
  /\ UNCHANGED <<state, a_stick, c_stick, shield_state, crouch_walk_option_select,
                 panicked, nev, pad, order, altHeld, scn, pending, log, wire>>

\* try_next yields the oldest unread event; evdev_to_b0xx and process_b0xx
\* run on it and into_pipe_inputs lists the commands to write.
Take ==
  /\ ~panicked
  /\ pending = <<>>
  /\ nev < Len(arrived)
  /\ \E r \in {Processed(arrived[nev + 1][1], arrived[nev + 1][2])} :
       /\ state' = r.m.state
       /\ a_stick' = r.m.a_stick
       /\ c_stick' = r.m.c_stick
       /\ shield_state' = r.m.shield_state
       /\ panicked' = r.panic
       /\ pending' = Commands(r)
  /\ nev' = nev + 1
  /\ UNCHANGED <<crouch_walk_option_select, held, pad, order, altHeld, scn, arrived, log,
                 wire>>

\* One pass of the for loop: sink.send writes the next command.
Send ==
  /\ pending # <<>>
  /\ log' = Append(log, SendCommand(pending))
  /\ pad' = PadApply(pad, SendCommand(pending))
  /\ pending' = Tail(pending)
  /\ UNCHANGED <<state, a_stick, c_stick, shield_state, crouch_walk_option_select,
                 panicked, held, nev, order, altHeld, scn, arrived, wire>>

NextLoop ==
  \/ \E code \in LoopKeys, value \in {0, 1} : Arrive(code, value)
  \/ Take
  \/ Send

SpecLoop == Init /\ [][NextLoop]_vars

\* The commands of the events evs processed one after the other from the
\* translator state m, each event's commands in the order produced.
RECURSIVE InOrderCommands(_, _)
InOrderNext(r, rest) == Commands(r) \o InOrderCommands(r.m, rest)
InOrderCommands(m, evs) ==
  IF evs = <<>> THEN <<>>
  ELSE InOrderNext(process_b0xx(m, EventOf(Head(evs)[1], Head(evs)[2]).btn,
                                EventOf(Head(evs)[1], Head(evs)[2]).pressed,
                                crouch_walk_option_select),
                   Tail(evs))

\* The events the loop has taken from the stream so far.
TakenEvents == SubSeq(arrived, 1, nev)

\* What is written, followed by what the event in hand has yet to write,
\* is the in-order output of the events taken.
C28_LogInOrder == log \o pending = InOrderCommands(MainDefault, TakenEvents)

\* An event is taken only once every command of the events before it is
\* written, and a write never moves the translator on.
C28_WriteBeforeNext ==
  /\ nev' # nev => (pending = <<>> /\ log = InOrderCommands(MainDefault, TakenEvents))
  /\ log' # log => (nev' = nev /\ MainRecNext = MainRec
                     /\ log' = Append(log, Head(pending)))

\* C28: the event loop processes key events strictly in the order received
\* and writes every command of one event to the sink, in the order produced
\* (a composite's sub-commands in composite order), before the next event
\* is processed; outputs of different events are never interleaved or
\* reordered.
C28_InOrder == []C28_LogInOrder /\ [][C28_WriteBeforeNext]_vars

\* The four events of the B press and release under ModY with A.X Positive
\* held are all written, the two composites in their order, while nothing
\* is left to write.
C28_Witness ==
  /\ arrived = <<<<"KEY_U", 1>>, <<"KEY_LEFTCTRL", 1>>, <<"KEY_H", 1>>, <<"KEY_H", 0>>>>
  /\ nev = 4 /\ pending = <<>>
  /\ Len(log) = 6
  /\ log[3] = PipeStick("A", <<53, 0>>) /\ log[4] = PipeButton("B", PRESSED)
  /\ log[5] = PipeButton("B", RELEASED) /\ log[6] = PipeStick("A", <<27, 0>>)

\* ----------------------------------------------------------------- C31
DPadButtons == {"DUp", "DDown", "DLeft", "DRight"}

\* C31: D-pad commands alternate per button: in every physically consistent
\* key sequence the commands sent for each of the four D-pad buttons go
\* PRESS, RELEASE, PRESS, ... starting with PRESS: a D-pad button is pressed
\* only while it is up as far as the sink was told, and released only while
\* it is down.
C31_DPadAlternates ==
  [][\A code \in MappedKeys, value \in {0, 1} :
       Step(code, value)
         => \A i \in DOMAIN Emitted(code, value) :
              (/\ Emitted(code, value)[i].t = "Button"
               /\ Emitted(code, value)[i].button \in DPadButtons)
                => (Emitted(code, value)[i].pressed
                      <=> Emitted(code, value)[i].button \notin pad.buttons)]_vars

\* ----------------------------------------------------------------- C32
\* The directions a DualModeAxisState treats as latched: none for Neither,
\* the one opposite to the stored direction for Single, both for Both.
LatchedDirs(s) ==
  CASE s.tag = "Neither" -> {}
    [] s.tag = "Single" -> {~s.dir}
    [] s.tag = "Both" -> {POSITIVE, NEGATIVE}

\* The directions of a C axis whose keys went down while both modifier keys
\* were held and are still down.
AltHeldDirs(axis) == {B0xxFrom(btn).dir : btn \in {b \in altHeld : B0xxFrom(b).axis = axis}}

\* C32: the D-pad latch encoded in the C-stick axis states matches the keys:
\* after every event of a physically consistent sequence, for each C axis
\* the directions the axis state treats as latched are those of the axis's
\* keys that were pressed while both modifiers were held and have not been
\* released since.
C32_LatchMatchesKeys ==
  /\ LatchedDirs(c_stick.x) = AltHeldDirs("X")
  /\ LatchedDirs(c_stick.y) = AltHeldDirs("Y")

\* ----------------------------------------------------------------- C33
\* The C-direction button opposite to btn on its axis.
OppositeC(btn) ==
  CASE btn = "CR" -> "CL"
    [] btn = "CL" -> "CR"
    [] btn = "CU" -> "CD"
    [] btn = "CD" -> "CU"

\* The key of a C-direction button.
CKeyOf(btn) == CHOOSE code \in CKeys : BtnOf(code) = btn

\* The active direction of the C axis of a C-direction button, before and
\* after a step.
CActiveOf(btn) == ActiveOf("C" \o B0xxFrom(btn).axis)
CActiveOfNext(btn) == ActiveOfNext("C" \o B0xxFrom(btn).axis)

\* C33: a C-direction held in normal mode keeps driving the C-stick across
\* a D-pad press on the same axis: when a C-direction key pressed under
\* fewer than both modifiers is held and active, the press of the opposite
\* C-direction under both modifiers leaves the first direction active.
C33_NormalStaysActive ==
  [][\A code \in CKeys :
       (/\ Step(code, 1) /\ ModKeys \subseteq held
        /\ CKeyOf(OppositeC(BtnOf(code))) \in held
        /\ OppositeC(BtnOf(code)) \notin altHeld
        /\ CActiveOf(BtnOf(code)) = Some(~B0xxFrom(BtnOf(code)).dir))
         => CActiveOfNext(BtnOf(code)) = Some(~B0xxFrom(BtnOf(code)).dir)]_vars

\* ----------------------------------------------------------------- C34
\* C34: after every event of every input sequence the stored C-stick
\* coordinate is the one the C-stick resolver computes from the current
\* state, and the stored A-stick coordinate is the one the A-stick resolver
\* computes; no event, the early returns of D-pad, pure button and shield
\* events included, leaves a stored coordinate stale.
C34_StoredIsResolved ==
  ~panicked =>
    /\ c_stick.gc_input = CStickInput(MainRec)
    /\ a_stick.gc_input = AStickInput(MainRec, crouch_walk_option_select)

\* ----------------------------------------------------------------- C35
\* The AxisState of an A-stick axis.
AAxisState(k) == IF k = "AX" THEN a_stick.x ELSE a_stick.y
AAxisStateNext(k) == IF k = "AX" THEN a_stick'.x ELSE a_stick'.y

\* The AxisState of axis k says which of its keys are down: order[k] lists
\* them, the older press first.
C35_StateEncodesHeld ==
  \A k \in {"AX", "AY"} :
    /\ AAxisState(k) = AxisNull(None) <=> order[k] = <<>>
    /\ \A d \in BOOLEAN :
         /\ AAxisState(k) = AxisNull(Some(d)) <=> (order[k] = <<d>> /\ ActiveOf(k) = None)
         /\ AAxisState(k) = AxisActive(d, RELEASED) <=> (order[k] = <<d>> /\ ActiveOf(k) = Some(d))
         /\ AAxisState(k) = AxisActive(d, PRESSED) <=> order[k] = <<~d, d>>

\* Every A-direction event changes the state of its axis.
C35_NoNoOp ==
  \A code \in AKeys, value \in {0, 1} :
    Step(code, value)
      => /\ AAxisStateNext("A" \o B0xxFrom(BtnOf(code)).axis)
              # AAxisState("A" \o B0xxFrom(BtnOf(code)).axis)
         /\ AAxisStateNext("A" \o B0xxFrom(BtnOf(code)).axis)
              = AxisState_transition(AAxisState("A" \o B0xxFrom(BtnOf(code)).axis),
                                     B0xxFrom(BtnOf(code)).dir, value = 1)

\* C35: each A-stick AxisState encodes exactly which of the axis's two keys
\* are held: after every event of a physically consistent sequence it is
\* Null(none) iff neither key is held, Null(some d) iff only d is held and
\* suppressed, Active(a, false) iff only a is held and active, and
\* Active(a, true) iff both are held with a pressed more recently; so every
\* A-direction event changes the axis state, the no-op arm is never taken.
C35_AxisEncodesKeys == []C35_StateEncodesHeld /\ [][C35_NoNoOp]_vars

\* Left, then Right, were pressed and Right was released: only Left is down
\* and it is suppressed.
C35_Witness ==
  /\ held = {"KEY_O"}
  /\ order["AX"] = <<NEGATIVE>>
  /\ a_stick.x = AxisNull(Some(NEGATIVE))
  /\ nev = 3

\* ----------------------------------------------------------------- C36
\* The trigger value that stands in a shield state.
TriggerOf(s) ==
  CASE s = ShNull -> 0
    [] s = ShM(FALSE) -> 0
    [] s = ShL -> 49
    [] s = ShML -> 49
    [] s = ShM(TRUE) -> 94
    [] s = ShLM -> 94

\* The shield keys that are down in a shield state: KEY_R is the light
\* shield, KEY_S the medium one.
PedalsOf(s) ==
  CASE s = ShNull -> {}
    [] s = ShL -> {"KEY_R"}
    [] s.tag = "M" -> {"KEY_S"}
    [] s \in {ShML, ShLM} -> {"KEY_R", "KEY_S"}

\* C36: the last trigger value sent is a function of the shield state: after
\* every event of a physically consistent sequence it is 0 (or none was
\* sent) in Null and M(false), 49 in L and ML, 94 in M(true) and LM; with no
\* shield key held the trigger is 0, and the shield state identifies the
\* held shield keys.
C36_TriggerOfShieldState ==
  /\ pad.l = TriggerOf(shield_state)
  /\ held \cap ShieldKeys = PedalsOf(shield_state)
  /\ held \cap ShieldKeys = {} => pad.l = 0

\* Medium, then Light, were pressed and Light was released: Medium alone is
\* down and the trigger is at 0.
C36_Witness ==
  /\ held = {"KEY_S"}
  /\ shield_state = ShM(FALSE)
  /\ pad.l = 0
  /\ nev = 3

\* ----------------------------------------------------------------- C37
\* What File::write has put into the file when it returns Ok(n): the first
\* n pieces of the buffer.  n may be less than the length of the buffer.
write(buf, n) == SubSeq(buf, 1, n)

\* OutputSink::send returning Ok: the command is formatted, File::write
\* accepts n pieces of it, the count is dropped, and the for loop goes on
\* to the next command.
SinkWrite ==
  /\ ~panicked
  /\ pending # <<>>
  /\ \E n \in 0..Len(into_input_string(SendCommand(pending))) :
       wire' = write(into_input_string(SendCommand(pending)), n)
  /\ pending' = Tail(pending)
  /\ UNCHANGED <<state, a_stick, c_stick, shield_state, crouch_walk_option_select,
                 panicked, held, nev, pad, order, altHeld, scn, arrived, log>>

\* OutputSink::send returning Err: File::write failed, the ? hands the
\* error to the loop and expect("failed to write to pipe") panics.
SinkError ==
  /\ ~panicked
  /\ pending # <<>>
  /\ panicked' = TRUE
  /\ UNCHANGED <<state, a_stick, c_stick, shield_state, crouch_walk_option_select,
                 held, nev, pad, order, altHeld, scn, arrived, pending, log, wire>>

NextSink ==
  \/ \E code \in LoopKeys, value \in {0, 1} : Arrive(code, value)
  \/ Take
  \/ SinkWrite
  \/ SinkError

\* The event loop with a sink whose writes may be short or fail.
SpecSink == Init /\ [][NextSink]_vars

\* C37: every command handed to OutputSink::send is either written to the
\* sink in full or reported as an error that stops the loop: it never
\* happens that the sink accepts only a prefix of the command, send returns
\* Ok and the loop goes on with the next command.
C37_WholeOrError ==
  [][(pending # <<>> /\ pending' = Tail(pending) /\ ~panicked')
       => wire' = into_input_string(SendCommand(pending))]_vars

====
